---- MODULE Spec2Model ----
(***************************************************************************)
(* Model of newspaper.article.Article: the download / parse / nlp          *)
(* lifecycle of one article object (specification Spec), its constructor   *)
(* (SpecInit), and the metadata heuristics of                              *)
(* newspaper.extractors.ContentExtractor, each applied to inputs drawn     *)
(* from bounded sets (SpecAuthors, SpecTitle, SpecDate, SpecMeta).         *)
(*                                                                         *)
(* Python values are modelled as follows.  Strings are TLA+ strings, None  *)
(* is the string "None" (no page, url or message of the model is spelled   *)
(* that way).  Titles are sequences of characters so that the slice        *)
(* input_title[:MAX_TITLE] can be computed; the empty sequence stands for  *)
(* both "" and None, which set_title does not distinguish.  A DOM tree is  *)
(* the record [src, cleaned, id]: the html it was built from, whether the  *)
(* document cleaner has run on it, and the identity of the tree object (a  *)
(* deep copy is a new object; the cleaner changes a tree in place).        *)
(***************************************************************************)
EXTENDS Integers, Sequences, FiniteSets, TLC

\* article, last, ncalls: the Article object, the call last made on it and
\* the number of calls; caller_config: the Configuration object the caller
\* passes to constructors; extraction: the extractor function under study,
\* its arguments and what it returned
VARIABLES article, last, ncalls, caller_config, extraction

vars == <<article, last, ncalls, caller_config, extraction>>

None == "None"

\* ArticleDownloadState
NOT_STARTED == 0
FAILED_RESPONSE == 1
SUCCESS == 2

\* number of download / parse / nlp calls made on the article
MaxCalls == 3

\* config.MAX_TITLE, the length titles are cut to
MAX_TITLE == 2

-----------------------------------------------------------------------------
(* The outside world: pages, urls, and what the collaborators return.      *)

\* the characters of a string
Chars(str) == [i \in 1..Len(str) |-> SubSeq(str, i, i)]

\* sub in text
Contains(text, sub) ==
    \E i \in 0..(Len(text) - Len(sub)) : SubSeq(text, i + 1, i + Len(sub)) = sub

\* html bodies: the empty string, a whitespace-only body, a plain page (one
\* that names cloudflare), a page with a meta refresh directive, and a page
\* with links matching the read-more selector
Pages == {"", " ", "<p>cloudflare</p>", "<refresh>", "<more>"}

\* bodies of error responses: without and with bot-protection signatures
ErrorBodies ==
    {"<error>", "<error>CloudFront cloudflare", "<error>perimeterx CloudFront",
     "<error>perimeterx"}

RefreshUrl == "http://r/"

ArticleUrls == {"http://a/x", "file:///a/x"}

ReadMoreSelector == "//a[@class='more']"

\* utils.extract_meta_refresh: the target of the page's refresh directive
extract_meta_refresh(html) ==
    IF html = "<refresh>" THEN RefreshUrl ELSE None

NoDoc == [src |-> None, cleaned |-> FALSE, id |-> 0]

\* parsers.fromstring: the tree of the html, None when lxml builds none
fromstring(html) ==
    IF html \in {"", " "} THEN NoDoc ELSE [src |-> html, cleaned |-> FALSE, id |-> 1]

\* copy.deepcopy with a slip: the same tree object is handed back
deepcopy_alias(doc) == doc

\* copy.deepcopy of a tree (or of None): an equal tree that is a new object
deepcopy(doc) == IF doc = NoDoc THEN NoDoc ELSE [doc EXCEPT !.id = @ + 1]

\* doc.xpath(read_more_link): the href attribute of every matched node, in
\* document order (None for a matched node without href)
xpath_hrefs(doc, selector) ==
    IF doc.src = "<more>"
    THEN <<None, "/more", "http://b/other">>
    ELSE <<>>

\* urlparse(url).scheme
scheme(url) == IF url \in {"file:///a/x", "file:///more"} THEN "file" ELSE "http"

\* urlparse(url).path
path(url) ==
    CASE url = "file:///a/x" -> "/a/x"
      [] url = "file:///more" -> "/more"
      [] url = "http://a/x" -> "/x"
      [] url = "http://a/more" -> "/more"
      [] OTHER -> "/"

\* urls.prepare_url(url, source_url): url made absolute against source_url
prepare_url(url, source_url) ==
    IF url = "/more"
    THEN (IF scheme(source_url) = "file" THEN "file:///more" ELSE "http://a/more")
    ELSE url

\* what network.get_html_2XX_only does: return (html, status_code) or raise
\* requests.exceptions.RequestException
HttpOutcomes ==
    [type : {"response"}, status_code : {200}, html : Pages, text : {None}]
    \cup [type : {"response"}, status_code : {404}, html : ErrorBodies, text : {None}]
    \cup [type : {"RequestException"}, status_code : {0}, html : {None},
          text : {"Connection refused"}]

\* what open(path).read() does: return the text or raise OSError
FileOutcomes ==
    [type : {"response"}, status_code : {0}, html : Pages, text : {None}]
    \cup [type : {"OSError"}, status_code : {0}, html : {None},
          text : {"No such file or directory"}]

\* what network.get_html does: return the html of the response
get_html(html) == [type |-> "response", status_code |-> 0, html |-> html, text |-> None]

-----------------------------------------------------------------------------
(* A call in progress: the article (self), the requests the call has made  *)
(* so far, each with the function that made it, the url argument given to  *)
(* that function, the address asked and the outcome, and the exception the *)
(* call has raised.                                                        *)

NoException == [type |-> None, msg |-> None]

NoLinkHash == [url |-> None, html |-> None]

Call(self) == [self |-> self, requests |-> <<>>, raised |-> NoException]

Request(c, fn, arg, target, out) ==
    [c EXCEPT !.requests =
        Append(@, [fn |-> fn, arg |-> arg, target |-> target, outcome |-> out])]

Raise(c, type, msg) == [c EXCEPT !.raised = [type |-> type, msg |-> msg]]

\* no node: the value None of top_node, clean_top_node and
\* _top_node_complemented
NoNode == [tag |-> None, tree |-> 0, complemented |-> FALSE]

\* Article.__init__
NewArticle(url, title, read_more_link, follow_meta_refresh) ==
    [ config |-> [follow_meta_refresh |-> follow_meta_refresh],
      url |-> url,
      original_url |-> url,
      title |-> title,
      read_more_link |-> read_more_link,
      top_image |-> "",
      images |-> <<>>,
      text |-> "",
      keywords |-> <<>>,
      authors |-> <<>>,
      publish_date |-> "",
      summary |-> "",
      html |-> "",
      article_html |-> "",
      is_parsed |-> FALSE,
      download_state |-> NOT_STARTED,
      download_exception_msg |-> None,
      meta_data |-> "{}",
      canonical_link |-> "",
      meta_keywords |-> <<>>,
      tags |-> {},
      top_node |-> NoNode,
      clean_top_node |-> NoNode,
      _top_node_complemented |-> NoNode,
      doc |-> NoDoc,
      clean_doc |-> NoDoc,
      link_hash |-> NoLinkHash ]

\* set_html with a slip: an empty html clears the download state
set_html_resetting(self, html) ==
    IF html # ""
    THEN [self EXCEPT !.html = html, !.download_state = SUCCESS]
    ELSE [self EXCEPT !.download_state = NOT_STARTED]

\* Article.set_html
set_html(self, html) ==
    IF html # ""
    THEN [self EXCEPT !.html = html, !.download_state = SUCCESS]
    ELSE self

\* Article.set_title
set_title(self, input_title) ==
    IF input_title # <<>>
    THEN [self EXCEPT !.title =
            SubSeq(input_title, 1,
                   IF Len(input_title) < MAX_TITLE THEN Len(input_title) ELSE MAX_TITLE)]
    ELSE self

\* _detect_protection with a slip: CloudFront is looked for first
_detect_protection_cloudfront_first(html) ==
    IF Contains(Chars(html), Chars("CloudFront")) THEN "CloudFront"
    ELSE IF Contains(Chars(html), Chars("cloudflare")) THEN "Cloudflare"
    ELSE IF Contains(Chars(html),
                     Chars("/cdn-cgi/challenge-platform/h/b/orchestrate/chl_page"))
    THEN "Cloudflare"
    ELSE IF Contains(Chars(html), Chars("perimeterx")) THEN "PerimeterX"
    ELSE None

\* Article._detect_protection
_detect_protection(html) ==
    IF Contains(Chars(html), Chars("cloudflare")) THEN "Cloudflare"
    ELSE IF Contains(Chars(html),
                     Chars("/cdn-cgi/challenge-platform/h/b/orchestrate/chl_page"))
    THEN "Cloudflare"
    ELSE IF Contains(Chars(html), Chars("CloudFront")) THEN "CloudFront"
    ELSE IF Contains(Chars(html), Chars("perimeterx")) THEN "PerimeterX"
    ELSE None

\* Article._parse_scheme_file
_parse_scheme_file(c, p, out) ==
    LET c1 == Request(c, "open", p, p, out)
    IN  IF out.type = "OSError"
        THEN [c |-> [c1 EXCEPT !.self.download_state = FAILED_RESPONSE,
                               !.self.download_exception_msg = out.text],
              html |-> None]
        ELSE [c |-> c1, html |-> out.html]

\* _parse_scheme_http with a slip: a transport exception leaves the download
\* state alone
_parse_scheme_http_unrecorded(c, url, out) ==
    LET target == IF url = None THEN c.self.url ELSE url
        c1 == Request(c, "get_html_2XX_only", url, target, out)
        protection == _detect_protection(out.html)
    IN  IF out.type = "RequestException"
        THEN [c |-> [c1 EXCEPT !.self.download_exception_msg = out.text],
              html |-> None]
        ELSE IF out.status_code >= 400
        THEN [c |-> [c1 EXCEPT
                       !.self.download_state = FAILED_RESPONSE,
                       !.self.download_exception_msg =
                           IF protection # None
                           THEN "Website protected with " \o protection
                                    \o ", url: " \o url
                           ELSE "Status code " \o ToString(out.status_code)
                                    \o " for url " \o url],
              html |-> None]
        ELSE [c |-> c1, html |-> out.html]

\* _parse_scheme_http with a slip: a request that failed is issued once more
_parse_scheme_http_retrying(c, url, out) ==
    LET target == IF url = None THEN c.self.url ELSE url
        c1 == Request(c, "get_html_2XX_only", url, target, out)
        protection == _detect_protection(out.html)
    IN  IF out.type = "RequestException"
        THEN [c |-> [Request(c1, "get_html_2XX_only", url, target, out) EXCEPT
                       !.self.download_state = FAILED_RESPONSE,
                       !.self.download_exception_msg = out.text],
              html |-> None]
        ELSE IF out.status_code >= 400
        THEN [c |-> [Request(c1, "get_html_2XX_only", url, target, out) EXCEPT
                       !.self.download_state = FAILED_RESPONSE,
                       !.self.download_exception_msg =
                           IF protection # None
                           THEN "Website protected with " \o protection
                                    \o ", url: " \o url
                           ELSE "Status code " \o ToString(out.status_code)
                                    \o " for url " \o url],
              html |-> None]
        ELSE [c |-> c1, html |-> out.html]

\* Article._parse_scheme_http
_parse_scheme_http(c, url, out) ==
    LET target == IF url = None THEN c.self.url ELSE url
        c1 == Request(c, "get_html_2XX_only", url, target, out)
        protection == _detect_protection(out.html)
    IN  IF out.type = "RequestException"
        THEN [c |-> [c1 EXCEPT !.self.download_state = FAILED_RESPONSE,
                               !.self.download_exception_msg = out.text],
              html |-> None]
        ELSE IF out.status_code >= 400
        THEN [c |-> [c1 EXCEPT
                       !.self.download_state = FAILED_RESPONSE,
                       !.self.download_exception_msg =
                           IF protection # None
                           THEN "Website protected with " \o protection
                                    \o ", url: " \o url
                           ELSE "Status code " \o ToString(out.status_code)
                                    \o " for url " \o url],
              html |-> None]
        ELSE [c |-> c1, html |-> out.html]


\* the first matched node that has an href (lines 403-405): its index in
\* hrefs, 0 when there is none
first_href(hrefs) ==
    LET withHref == {i \in 1..Len(hrefs) : hrefs[i] \notin {None, ""}}
    IN  IF withHref = {} THEN 0
        ELSE CHOOSE i \in withHref : \A j \in withHref : i <= j

\* Article.download, the read-more block: returns the call and the local html
follow_read_more(c, html, out) ==
    LET doc == fromstring(html)
        hrefs == xpath_hrefs(doc, c.self.read_more_link)
        i == first_href(hrefs)
        new_url == prepare_url(hrefs[i], c.self.url)
        f == _parse_scheme_http(c, new_url, out)
    IN  IF doc = NoDoc
        THEN [c |-> Raise(c, "AttributeError",
                          "'NoneType' object has no attribute 'xpath'"),
              html |-> html]
        ELSE IF i = 0 THEN [c |-> c, html |-> html]
        ELSE IF f.html # None
        THEN [c |-> [f.c EXCEPT !.self.url = new_url], html |-> f.html]
        ELSE [c |-> f.c, html |-> html]

\* follows_meta_refresh with a slip: the bound on the recursion is off by one
follows_meta_refresh_twice(self, html, recursion_counter) ==
    /\ self.config.follow_meta_refresh
    /\ extract_meta_refresh(html) # None
    /\ recursion_counter < 2

\* Article.download, the condition under which the meta refresh is followed
follows_meta_refresh(self, html, recursion_counter) ==
    /\ self.config.follow_meta_refresh
    /\ extract_meta_refresh(html) # None
    /\ recursion_counter < 1

\* Article.download, the condition under which the read-more link is looked for
looks_for_read_more(self, ignore_read_more) ==
    ~ignore_read_more /\ self.read_more_link # ""

\* Article.download, the first block: the article's own fetch
fetch_article(c, input_html, env) ==
    IF input_html = None
    THEN IF scheme(c.self.url) = "file"
         THEN _parse_scheme_file(c, path(c.self.url), env.file)
         ELSE _parse_scheme_http(c, None, env.http)
    ELSE [c |-> c, html |-> input_html]

RECURSIVE download(_, _, _, _, _, _)
\* Article.download; env holds what the file system and the network answer
\* to the requests of this call
download(c, input_html, title, recursion_counter, ignore_read_more, env) ==
    LET f == fetch_article(c, input_html, env)
        meta_refresh_url == extract_meta_refresh(f.html)
        g == IF looks_for_read_more(f.c.self, ignore_read_more)
             THEN follow_read_more(f.c, f.html, env.read_more)
             ELSE f
    IN  IF f.html = None THEN f.c
        ELSE IF follows_meta_refresh(f.c.self, f.html, recursion_counter)
        THEN download(Request(f.c, "get_html", meta_refresh_url, meta_refresh_url,
                              get_html(env.get_html)),
                      env.get_html, <<>>, recursion_counter + 1, FALSE, env)
        ELSE IF g.c.raised # NoException THEN g.c
        ELSE [g.c EXCEPT !.self = set_title(set_html(@, g.html), title)]

-----------------------------------------------------------------------------
(* parse() and nlp().  ext holds what the external extractors (title,      *)
(* authors, metadata, date, body resolver, formatter, images, nlp) return  *)
(* for the document at hand.                                               *)

\* config.MAX_AUTHORS and config.MAX_KEYWORDS, the lengths the lists are cut to
MAX_AUTHORS == 1
MAX_KEYWORDS == 1

\* lst[:n]
Take(lst, n) == SubSeq(lst, 1, IF Len(lst) < n THEN Len(lst) ELSE n)

\* throw_if_not_downloaded_verbose with a slip: a failed download passes
throw_if_not_downloaded_lenient(c) ==
    IF c.self.download_state = NOT_STARTED
    THEN Raise(c, "ArticleException", "You must download() an article first!")
    ELSE c

\* Article.throw_if_not_downloaded_verbose
throw_if_not_downloaded_verbose(c) ==
    IF c.self.download_state = NOT_STARTED
    THEN Raise(c, "ArticleException", "You must download() an article first!")
    ELSE IF c.self.download_state = FAILED_RESPONSE
    THEN Raise(c, "ArticleException",
               "Article download() failed with " \o c.self.download_exception_msg
                   \o " on URL " \o c.self.url)
    ELSE c

\* throw_if_not_parsed_verbose with a slip: the test is on the html
throw_if_not_parsed_on_html(c) ==
    IF c.self.html = ""
    THEN Raise(c, "ArticleException", "You must parse() an article first!")
    ELSE c

\* Article.throw_if_not_parsed_verbose
throw_if_not_parsed_verbose(c) ==
    IF ~c.self.is_parsed
    THEN Raise(c, "ArticleException", "You must parse() an article first!")
    ELSE c

\* Article.get_parse_candidate: the link hash is derived from url and html
get_parse_candidate(self) == [url |-> self.url, html |-> self.html]

\* set_authors with a slip: the names are added to the ones already held
set_authors_accumulating(self, authors) ==
    IF authors # <<>> THEN [self EXCEPT !.authors = @ \o authors] ELSE self

\* Article.set_authors
set_authors(self, authors) ==
    IF authors # <<>> THEN [self EXCEPT !.authors = Take(authors, MAX_AUTHORS)] ELSE self

\* Article.set_text
set_text(self, text) == IF text # "" THEN [self EXCEPT !.text = text] ELSE self

\* Article.set_article_html
set_article_html(self, article_html) ==
    IF article_html # "" THEN [self EXCEPT !.article_html = article_html] ELSE self

\* Article.set_keywords
set_keywords(self, keywords) ==
    IF keywords # <<>> THEN [self EXCEPT !.keywords = Take(keywords, MAX_KEYWORDS)] ELSE self

\* Article.set_summary
set_summary(self, summary) == [self EXCEPT !.summary = summary]

\* DocumentCleaner.clean
clean(doc) == [doc EXCEPT !.cleaned = TRUE]

\* Article.parse, the cleaning pass: clean_doc is cleaned in place, so every
\* field that holds the same tree object sees the change
clean_clean_doc(self) ==
    [self EXCEPT !.doc = IF @.id = self.clean_doc.id THEN clean(@) ELSE @,
                 !.clean_doc = clean(@)]

\* ArticleBodyExtractor.parse: one run of the body resolver on a tree.  It
\* leaves in the resolver the top node found in that tree and the off-tree
\* copy of it complemented with its siblings; ext.top_node is the element the
\* heuristics pick, None when they pick none
ArticleBodyExtractor_parse(doc, ext) ==
    IF ext.top_node = None
    THEN [top_node |-> NoNode, top_node_complemented |-> NoNode]
    ELSE [top_node |-> [tag |-> ext.top_node, tree |-> doc.id, complemented |-> FALSE],
          top_node_complemented |->
              [tag |-> ext.top_node, tree |-> doc.id, complemented |-> TRUE]]

\* ContentExtractor.calculate_best_node: runs the body resolver on doc; the
\* value is the resolver after the run, whose top_node the code returns
calculate_best_node(doc, ext) == ArticleBodyExtractor_parse(doc, ext)

\* ContentExtractor.top_node_complemented: read from the resolver as it is
top_node_complemented(article_body_extractor) ==
    article_body_extractor.top_node_complemented

\* Article.parse, after the trees are built: extraction from the document
parse_document(self, ext) ==
    LET s1 == [self EXCEPT !.link_hash = get_parse_candidate(self)]
        s2 == set_authors(set_title(s1, ext.title), ext.authors)
        cleaned == clean_clean_doc([s2 EXCEPT !.canonical_link = ext.canonical_link,
                                              !.meta_keywords = ext.meta_keywords,
                                              !.tags = ext.tags,
                                              !.meta_data = ext.meta_data,
                                              !.publish_date = ext.publish_date])
        on_doc == calculate_best_node(cleaned.doc, ext)
        on_clean_doc == calculate_best_node(cleaned.clean_doc, ext)
        s3 == [cleaned EXCEPT !.top_node = on_doc.top_node,
                              !.clean_top_node = on_clean_doc.top_node]
        s4 == IF s3.top_node # NoNode
              THEN set_text(
                     set_article_html(
                       [s3 EXCEPT !._top_node_complemented =
                                      top_node_complemented(on_clean_doc)],
                       ext.article_html),
                     ext.text)
              ELSE s3
    IN  [s4 EXCEPT !.images = ext.images,
                   !.top_image = IF ext.images = <<>> THEN "" ELSE ext.images[1],
                   !.is_parsed = TRUE]

\* Article.parse, the tree construction: doc and its deep copy clean_doc
build_trees(self) ==
    [self EXCEPT !.doc = fromstring(self.html),
                 !.clean_doc = deepcopy(fromstring(self.html))]

\* parse with a slip: the return on a missing tree is left out
parse_without_return(c, ext) ==
    LET c1 == throw_if_not_downloaded_verbose(c)
        s == build_trees(c1.self)
    IN  IF c1.raised # NoException THEN c1
        ELSE [c1 EXCEPT !.self = parse_document(s, ext)]

\* Article.parse
parse(c, ext) ==
    LET c1 == throw_if_not_downloaded_verbose(c)
        s == build_trees(c1.self)
    IN  IF c1.raised # NoException THEN c1
        ELSE IF s.doc = NoDoc THEN [c1 EXCEPT !.self = s]
        ELSE [c1 EXCEPT !.self = parse_document(s, ext)]

\* Article.nlp
nlp(c, ext) ==
    LET c1 == throw_if_not_downloaded_verbose(c)
        c2 == IF c1.raised = NoException THEN throw_if_not_parsed_verbose(c1) ELSE c1
    IN  IF c2.raised # NoException THEN c2
        ELSE [c2 EXCEPT !.self = set_summary(set_keywords(@, ext.keywords), ext.summary)]

-----------------------------------------------------------------------------
(* The state machine: one article, and a caller that makes up to MaxCalls  *)
(* calls of download(), parse() and nlp() in any order.                    *)

\* titles given by the caller to download(title=...); the constructor is
\* given none
CallerTitles == {<<>>, <<"L", "o", "n", "g">>}

\* titles found in a document by the title extractor
ExtractedTitles == {<<>>, <<"X">>}

\* the input_html arguments of download(): None, or a cached page
InputHtmls == {None, "", " ", "<refresh>"}

\* an outcome that stands for a request the call never makes
Unused(outcomes) == CHOOSE o \in outcomes : o.type # "response"

\* what the file system and the network may answer during one download()
\* with the given article and arguments: answers to the requests the call
\* can make, in the order it makes them
Environments(self, input_html) ==
    LET firsts ==
          [ file : IF input_html = None /\ scheme(self.url) = "file"
                   THEN FileOutcomes ELSE {Unused(FileOutcomes)},
            http : IF input_html = None /\ scheme(self.url) # "file"
                   THEN HttpOutcomes ELSE {Unused(HttpOutcomes)} ]
        html0(e) == IF input_html # None THEN input_html
                    ELSE IF scheme(self.url) = "file" THEN e.file.html ELSE e.http.html
        refreshes(e) ==
          IF self.config.follow_meta_refresh /\ extract_meta_refresh(html0(e)) # None
          THEN Pages ELSE {""}
        links(h) == xpath_hrefs(fromstring(h), self.read_more_link)
        mores(e, r) ==
          IF self.read_more_link # "" /\ (links(html0(e)) # <<>> \/ links(r) # <<>>)
          THEN HttpOutcomes ELSE {Unused(HttpOutcomes)}
    IN  UNION { UNION { { [file |-> e.file, http |-> e.http, get_html |-> r,
                           read_more |-> m] : m \in mores(e, r) }
                        : r \in refreshes(e) }
                : e \in firsts }

\* what the extractors may return during one parse(): nothing found, or
\* every field found
Extractions ==
    { [ title |-> <<>>, authors |-> <<>>, canonical_link |-> "", meta_keywords |-> <<>>,
        tags |-> {}, meta_data |-> "{}", publish_date |-> None,
        top_node |-> None, article_html |-> "", text |-> "", images |-> <<>> ],
      [ title |-> <<"X">>, authors |-> <<"A", "B">>, canonical_link |-> "http://a/c",
        meta_keywords |-> <<"k">>, tags |-> {"t"}, meta_data |-> "{og}",
        publish_date |-> "2023-05-10", top_node |-> "div",
        article_html |-> "<div>body</div>", text |-> "body", images |-> <<"img">> ] }

NoExtraction == CHOOSE e \in Extractions : e.title = <<>>

\* the arguments of a call that is given none; ext is what the extractors
\* answer during the call, for a parse()
NoArgs == [input_html |-> None, title |-> <<>>, ignore_read_more |-> FALSE,
           ext |-> NoExtraction]

\* what the nlp module may return during one nlp()
NlpResults ==
    { [keywords |-> <<>>, summary |-> ""], [keywords |-> <<"k1", "k2">>, summary |-> "sum"] }

\* the caller's Configuration and the extractor call, where the
\* specification at hand has none
NoConfig == [requests_params |-> <<>>, settings |-> <<>>]

NoExtractorCall == [fn |-> None, args |-> <<>>, done |-> FALSE, result |-> <<>>,
                    raised |-> NoException]

Init ==
    /\ caller_config = NoConfig
    /\ extraction = NoExtractorCall
    /\ \E url \in ArticleUrls, read_more_link \in {"", ReadMoreSelector},
          follow_meta_refresh \in BOOLEAN :
          article = NewArticle(url, <<>>, read_more_link, follow_meta_refresh)
    /\ last = [op |-> "__init__", args |-> NoArgs, requests |-> <<>>,
               raised |-> NoException, repeats |-> FALSE]
    /\ ncalls = 0

Returned(op, args, c) ==
    /\ article' = c.self
    /\ last' = [op |-> op, args |-> args, requests |-> c.requests, raised |-> c.raised,
                repeats |-> op = "parse" /\ last.op = "parse" /\ last.args = args]
    /\ ncalls' = ncalls + 1
    /\ UNCHANGED <<caller_config, extraction>>

Download ==
    /\ ncalls < MaxCalls
    /\ \E input_html \in InputHtmls, title \in CallerTitles,
          ignore_read_more \in BOOLEAN :
          \E env \in Environments(article, input_html) :
             Returned("download",
                      [NoArgs EXCEPT !.input_html = input_html, !.title = title,
                                     !.ignore_read_more = ignore_read_more],
                      download(Call(article), input_html, title, 0,
                               ignore_read_more, env))

Parse ==
    /\ ncalls < MaxCalls
    /\ \E ext \in (IF fromstring(article.html) = NoDoc
                      \/ article.download_state # SUCCESS
                   THEN {NoExtraction} ELSE Extractions) :
          Returned("parse", [NoArgs EXCEPT !.ext = ext], parse(Call(article), ext))

Nlp ==
    /\ ncalls < MaxCalls
    /\ \E ext \in NlpResults : Returned("nlp", NoArgs, nlp(Call(article), ext))

Next == Download \/ Parse \/ Nlp

Spec == Init /\ [][Next]_vars

-----------------------------------------------------------------------------
(* The constructor.  A Configuration is an object: the caller's one is     *)
(* held in caller_config, and an Article built with config=c works on that *)
(* very object.  requests_params and settings are mappings from names to   *)
(* values.                                                                 *)

\* how many Articles the caller builds
MaxArticles == 2

\* the names of available_requests_params the callers use
available_requests_params == {"timeout", "verify"}

\* Configuration(): the defaults of a new configuration object
Configuration ==
    [ requests_params |-> [timeout |-> 7, verify |-> TRUE],
      settings |-> [follow_meta_refresh |-> FALSE] ]

\* a Configuration passed where a string is expected
ConfigurationObject == "<Configuration>"

\* the keyword arguments the callers give
Kwargs ==
    { [k \in {} |-> 0],
      [timeout |-> 5],
      [verify |-> FALSE],
      [follow_meta_refresh |-> TRUE],
      [timeout |-> 5, follow_meta_refresh |-> TRUE] }

\* the url arguments of the callers: the last two have neither scheme nor
\* domain
MalformedUrls == {"", "no url"}

ConstructorUrls == ArticleUrls \cup MalformedUrls

SourceUrls == {"", "http://a", None, ConfigurationObject}

\* urls.get_scheme(url): urlparse(url).scheme
get_scheme(url) == IF url \in MalformedUrls THEN "" ELSE scheme(url)

\* urls.get_domain(url): urlparse(url).netloc
get_domain(url) == IF url = "http://a/x" THEN "a" ELSE ""

\* the mapping m with the entries of kwargs under the names in keys
Override(m, kwargs, keys) ==
    [k \in DOMAIN m \cup (DOMAIN kwargs \cap keys) |->
        IF k \in DOMAIN kwargs \cap keys THEN kwargs[k] ELSE m[k]]

\* utils.extend_config(config, kwargs): the configuration with the keyword
\* arguments that name a setting written over its settings
extend_config(config, kwargs) ==
    [config EXCEPT !.settings = Override(@, kwargs, DOMAIN @)]

\* Article.__init__, the requests parameters: self.config is the object the
\* caller gave (or a new one) and the keyword arguments are written into its
\* requests_params; gives the caller's object and self.config afterwards
set_requests_params(c, config, kwargs) ==
    LET own == IF config = None THEN Configuration ELSE c
        set == [own EXCEPT !.requests_params =
                             Override(@, kwargs, available_requests_params)]
    IN  [ caller_config |-> IF config = None THEN c ELSE set,
          config |-> set ]

\* Article.__init__, the source url: the one given, or scheme://domain of url
infer_source_url(url, source_url) ==
    IF source_url = ""
    THEN (IF get_scheme(url) = None THEN "http" ELSE get_scheme(url))
            \o "://" \o get_domain(url)
    ELSE source_url

\* Article.__init__(url, title, source_url, read_more_link, config, **kwargs)
\* called while the caller's configuration object is c; config is None or
\* "c".  Gives the exception raised, the Article built and the caller's
\* configuration object afterwards.
Article_init(c, url, title, source_url, read_more_link, config, kwargs) ==
    LET p == set_requests_params(c, config, kwargs)
        cfg == extend_config(p.config, kwargs)
        src_url == infer_source_url(url, source_url)
        built == [ NewArticle(prepare_url(url, src_url), title, read_more_link,
                              cfg.settings.follow_meta_refresh)
                   EXCEPT !.config = [follow_meta_refresh |-> cfg.settings.follow_meta_refresh,
                                      requests_params |-> cfg.requests_params] ]
    IN  IF source_url = ConfigurationObject
        THEN [ raised |-> [type |-> "ArticleException",
                           msg |-> "Configuration object being passed incorrectly"],
               self |-> article, caller_config |-> c ]
        ELSE IF src_url = None \/ src_url = ""
        THEN [ raised |-> [type |-> "ArticleException", msg |-> "input url bad format"],
               self |-> article, caller_config |-> p.caller_config ]
        ELSE [ raised |-> NoException, self |-> built,
               caller_config |-> p.caller_config ]

\* no Article built yet
NoArticle == NewArticle(None, <<>>, "", FALSE)

\* the caller has made its configuration object and built no Article
InitConstructor ==
    /\ article = NoArticle
    /\ last = [op |-> None, args |-> NoArgs, requests |-> <<>>, raised |-> NoException,
               repeats |-> FALSE]
    /\ ncalls = 0
    /\ caller_config \in {Configuration,
                          [Configuration EXCEPT !.requests_params.timeout = 30]}
    /\ extraction = NoExtractorCall

\* the caller builds an Article, with its configuration object or without
Construct ==
    /\ ncalls < MaxArticles
    /\ \E url \in ConstructorUrls, source_url \in SourceUrls,
          config \in {None, "c"}, kwargs \in Kwargs :
          LET r == Article_init(caller_config, url, <<>>, source_url, "", config, kwargs)
          IN  /\ article' = r.self
              /\ caller_config' = r.caller_config
              /\ last' = [op |-> "__init__",
                          args |-> [url |-> url, source_url |-> source_url,
                                    config |-> config, kwargs |-> kwargs],
                          requests |-> <<>>, raised |-> r.raised]
              /\ ncalls' = ncalls + 1
              /\ UNCHANGED extraction

SpecInit == InitConstructor /\ [][Construct]_vars

-----------------------------------------------------------------------------
(* The extractors.  A text is the sequence of its characters.  Each        *)
(* extractor is applied once to arguments drawn from a bounded set:        *)
(* extraction holds the function, its arguments, and the value returned or *)
(* the exception raised once the call is done.                             *)

UpperCase == Chars("ABCDEFGHIJKLMNOPQRSTUVWXYZ")
LowerCase == Chars("abcdefghijklmnopqrstuvwxyz")
Digits == Chars("0123456789")

\* str.lower() of one character
LowerChar(ch) ==
    IF \E i \in 1..Len(UpperCase) : UpperCase[i] = ch
    THEN LowerCase[CHOOSE i \in 1..Len(UpperCase) : UpperCase[i] = ch]
    ELSE ch

\* str.lower()
lower(text) == [i \in 1..Len(text) |-> LowerChar(text[i])]

RECURSIVE lstrip(_)
lstrip(text) ==
    IF text # <<>> /\ Head(text) = " " THEN lstrip(Tail(text)) ELSE text

RECURSIVE rstrip(_)
rstrip(text) ==
    IF text # <<>> /\ text[Len(text)] = " "
    THEN rstrip(SubSeq(text, 1, Len(text) - 1))
    ELSE text

\* str.strip()
strip(text) == rstrip(lstrip(text))

\* the texts of at most n characters of chars
Texts(chars, n) == UNION {[1..k -> chars] : k \in 0..n}

\* the lists of at most n elements of elems
Lists(elems, n) == UNION {[1..k -> elems] : k \in 0..n}

\* the index of key in the OrderedDict seen (a list of [key, value]), 0 if none
IndexOfKey(seen, key) ==
    IF \E i \in 1..Len(seen) : seen[i].key = key
    THEN CHOOSE i \in 1..Len(seen) : seen[i].key = key
    ELSE 0

\* SetItem with a slip: a key already there keeps its first value
SetItem_keeping_first(seen, key, value) ==
    IF IndexOfKey(seen, key) = 0
    THEN Append(seen, [key |-> key, value |-> value])
    ELSE seen

\* seen[key] = value on an OrderedDict: a key already there keeps its place
SetItem(seen, key, value) ==
    IF IndexOfKey(seen, key) = 0
    THEN Append(seen, [key |-> key, value |-> value])
    ELSE [seen EXCEPT ![IndexOfKey(seen, key)].value = value]

RECURSIVE SeenAfter(_, _)
\* uniqify_list, the loop: seen after the items of lst
SeenAfter(seen, lst) ==
    IF lst = <<>> THEN seen
    ELSE SeenAfter(SetItem(seen, strip(lower(Head(lst))), strip(Head(lst))), Tail(lst))

RECURSIVE ValuesOfNonEmptyKeys(_)
ValuesOfNonEmptyKeys(seen) ==
    IF seen = <<>> THEN <<>>
    ELSE (IF Head(seen).key # <<>> THEN <<Head(seen).value>> ELSE <<>>)
            \o ValuesOfNonEmptyKeys(Tail(seen))

\* uniqify_list(lst)
uniqify_list(lst) == ValuesOfNonEmptyKeys(SeenAfter(<<>>, lst))

\* the characters, the length of a name and the number of byline candidates
AuthorChars == {"a", "A", " "}
MaxNameLen == 2
MaxCandidates == 3

\* the authors list get_authors has collected from the author tags, after
\* the stopwords are removed
AuthorCandidates == Lists(Texts(AuthorChars, MaxNameLen), MaxCandidates)

\* the state of a specification about the extractors: no Article call is made
NoArticleCalls ==
    /\ article = NoArticle
    /\ last = [op |-> None, args |-> NoArgs, requests |-> <<>>, raised |-> NoException,
               repeats |-> FALSE]
    /\ ncalls = 0
    /\ caller_config = NoConfig

InitAuthors ==
    /\ NoArticleCalls
    /\ \E authors \in AuthorCandidates :
          extraction = [fn |-> "get_authors", args |-> authors, done |-> FALSE,
                        result |-> <<>>, raised |-> NoException]

\* get_authors returns uniqify_list(authors)
GetAuthors ==
    /\ ~extraction.done
    /\ extraction' = [extraction EXCEPT !.done = TRUE,
                                        !.result = uniqify_list(extraction.args)]
    /\ UNCHANGED <<article, last, ncalls, caller_config>>

SpecAuthors == InitAuthors /\ [][GetAuthors]_vars

-----------------------------------------------------------------------------
(* get_title and split_title.                                              *)

\* text.startswith(prefix)
StartsWith(text, prefix) ==
    Len(prefix) <= Len(text) /\ SubSeq(text, 1, Len(prefix)) = prefix

\* text.find(sub) + 1: the first place of sub in text, 0 if none
Find(text, sub) ==
    IF Contains(text, sub)
    THEN CHOOSE i \in 1..(Len(text) - Len(sub) + 1) :
            /\ SubSeq(text, i, i + Len(sub) - 1) = sub
            /\ \A j \in 1..(i - 1) : SubSeq(text, j, j + Len(sub) - 1) # sub
    ELSE 0

RECURSIVE Split(_, _)
\* text.split(sep), and StringSplitter(sep).split(text)
Split(text, sep) ==
    IF Find(text, sep) = 0 THEN <<text>>
    ELSE <<SubSeq(text, 1, Find(text, sep) - 1)>>
            \o Split(SubSeq(text, Find(text, sep) + Len(sep), Len(text)), sep)

RECURSIVE ReplaceAll(_, _, _)
\* StringReplacement(pattern, replaceWith).replaceAll(text)
ReplaceAll(text, pattern, replaceWith) ==
    IF Find(text, pattern) = 0 THEN text
    ELSE SubSeq(text, 1, Find(text, pattern) - 1) \o replaceWith
            \o ReplaceAll(SubSeq(text, Find(text, pattern) + Len(pattern), Len(text)),
                          pattern, replaceWith)

RECURSIVE Join(_, _)
\* sep.join(lst)
Join(lst, sep) ==
    IF lst = <<>> THEN <<>>
    ELSE IF Len(lst) = 1 THEN lst[1]
    ELSE lst[1] \o sep \o Join(Tail(lst), sep)

IsNonEmpty(text) == text # <<>>

\* " ".join([x for x in text.split() if x])
CleanDoubleSpaces(text) == Join(SelectSeq(Split(text, <<" ">>), IsNonEmpty), <<" ">>)

IsAlnumOrSpace(ch) ==
    \/ ch = " "
    \/ \E i \in 1..Len(UpperCase) : ch \in {UpperCase[i], LowerCase[i]}
    \/ \E i \in 1..Len(Digits) : ch = Digits[i]

\* filter_regex.sub("", text).lower(), for a text without CJK characters
Filtered(text) == lower(SelectSeq(text, IsAlnumOrSpace))

\* lst.sort(key=len, reverse=True); lst[0]: the first of the longest texts
Longest(lst) ==
    lst[CHOOSE i \in 1..Len(lst) :
            /\ \A j \in 1..Len(lst) : Len(lst[j]) <= Len(lst[i])
            /\ \A j \in 1..(i - 1) : Len(lst[j]) < Len(lst[i])]

\* the delimiters get_title looks for, in its order, each with the pattern
\* of its StringSplitter
PIPE_SPLITTER == [found |-> Chars("|"), pattern |-> Chars("|")]
DASH_SPLITTER == [found |-> Chars("-"), pattern |-> Chars("-")]
UNDERSCORE_SPLITTER == [found |-> Chars("_"), pattern |-> Chars("_")]
SLASH_SPLITTER == [found |-> Chars("/"), pattern |-> Chars("/")]
ARROWS_SPLITTER == [found |-> Chars(" » "), pattern |-> Chars(" » ")]

SPLITTERS ==
    <<PIPE_SPLITTER, DASH_SPLITTER, UNDERSCORE_SPLITTER, SLASH_SPLITTER, ARROWS_SPLITTER>>

MOTLEY_REPLACEMENT(text) == ReplaceAll(text, Chars("&#65533;"), <<>>)
TITLE_REPLACEMENTS(text) == ReplaceAll(text, Chars("&raquo;"), Chars("»"))

\* split_title, the loop from piece i on: the index of the piece chosen
RECURSIVE LargeTextIndex(_, _, _, _, _)
LargeTextIndex(title_pieces, hint, i, large_text_length, large_text_index) ==
    IF i > Len(title_pieces) THEN large_text_index
    ELSE LET current == strip(title_pieces[i])
         IN  IF hint # <<>> /\ Contains(Filtered(current), hint)
             THEN i
             ELSE IF Len(current) > large_text_length
             THEN LargeTextIndex(title_pieces, hint, i + 1, Len(current), i)
             ELSE LargeTextIndex(title_pieces, hint, i + 1, large_text_length,
                                 large_text_index)

\* split_title with a slip: the hint is not looked at
split_title_without_hint(title, splitter, hint) ==
    LET title_pieces == Split(title, splitter.pattern)
    IN  strip(TITLE_REPLACEMENTS(title_pieces[LargeTextIndex(title_pieces, <<>>, 1, 0, 1)]))

\* ContentExtractor.split_title(title, splitter, hint)
split_title(title, splitter, hint) ==
    LET title_pieces == Split(title, splitter.pattern)
        filtered_hint == IF hint # <<>> THEN Filtered(hint) ELSE hint
    IN  strip(TITLE_REPLACEMENTS(title_pieces[LargeTextIndex(title_pieces, filtered_hint,
                                                            1, 0, 1)]))

\* get_title, the h1 candidate: the longest h1 text, dropped when short,
\* double spaces cleaned
TitleTextH1(h1_list) ==
    IF h1_list = <<>> THEN <<>>
    ELSE CleanDoubleSpaces(IF Len(Split(Longest(h1_list), <<" ">>)) <= 2
                           THEN <<>>
                           ELSE Longest(h1_list))

\* get_title, the rule that picks the title text: 1 to 4 when a better
\* alternative than splitting is found, 5 when the title is left to be split
TitleRule(title_text, title_text_h1, title_text_fb) ==
    LET filter_title_text == Filtered(title_text)
        filter_title_text_h1 == Filtered(title_text_h1)
        filter_title_text_fb == Filtered(title_text_fb)
    IN  IF title_text_h1 = title_text THEN 1
        ELSE IF filter_title_text_h1 # <<>> /\ filter_title_text_h1 = filter_title_text_fb
        THEN 2
        ELSE IF /\ filter_title_text_h1 # <<>>
                /\ Contains(filter_title_text, filter_title_text_h1)
                /\ filter_title_text_fb # <<>>
                /\ Contains(filter_title_text, filter_title_text_fb)
                /\ Len(title_text_h1) > Len(title_text_fb)
        THEN 3
        ELSE IF /\ filter_title_text_fb # <<>>
                /\ filter_title_text_fb # filter_title_text
                /\ StartsWith(filter_title_text, filter_title_text_fb)
        THEN 4
        ELSE 5

\* the first splitter whose delimiter is in the title text, 0 if none is
FirstSplitter(title_text) ==
    IF \E k \in 1..Len(SPLITTERS) : Contains(title_text, SPLITTERS[k].found)
    THEN CHOOSE k \in 1..Len(SPLITTERS) :
            /\ Contains(title_text, SPLITTERS[k].found)
            /\ \A j \in 1..(k - 1) : ~Contains(title_text, SPLITTERS[j].found)
    ELSE 0

\* ContentExtractor.get_title for a document whose title element (if it has
\* one) holds title_text, whose h1 elements hold h1_list and whose og:title
\* is title_text_fb
get_title(has_title, title_text, h1_list, title_text_fb) ==
    LET title_text_h1 == TitleTextH1(h1_list)
        rule == TitleRule(title_text, title_text_h1, title_text_fb)
        chosen == IF rule \in {2, 3} THEN title_text_h1
                  ELSE IF rule = 4 THEN title_text_fb
                  ELSE title_text
        split == IF rule = 5 /\ FirstSplitter(chosen) # 0
                 THEN split_title(chosen, SPLITTERS[FirstSplitter(chosen)], title_text_h1)
                 ELSE chosen
        title == MOTLEY_REPLACEMENT(split)
    IN  IF ~has_title THEN <<>>
        ELSE IF Filtered(title_text_h1) = Filtered(title) THEN title_text_h1
        ELSE title

\* the texts of the title element, of the h1 elements and of og:title in
\* the documents get_title is applied to
TitleTexts ==
    { Chars(t) : t \in {"Foo - Bar News", "Foo | Bar News", "Foo_Bar News", "Foo/Bar News",
                        "Site » Foo Bar", "Exact Match", "A Big Cat - Some Long Site Name",
                        "Some Long Site Name | a big cat!", "A Big Cat &raquo; Site",
                        "One - A Big Cat - Three More"} }

H1Lists ==
    { <<>>, <<Chars("Foo")>>, <<Chars("Exact Match")>>, <<Chars("A Big Cat")>>,
      <<Chars("Foo"), Chars("A  Big Cat")>>, <<Chars("Bar News")>> }

OgTitles == {<<>>, Chars("Foo"), Chars("A Big Cat")}

InitTitle ==
    /\ NoArticleCalls
    /\ \E has_title \in BOOLEAN, title_text \in TitleTexts, h1_list \in H1Lists,
          title_text_fb \in OgTitles :
          extraction = [fn |-> "get_title",
                        args |-> [has_title |-> has_title, title_text |-> title_text,
                                  h1_list |-> h1_list, title_text_fb |-> title_text_fb],
                        done |-> FALSE, result |-> <<>>, raised |-> NoException]

GetTitle ==
    /\ ~extraction.done
    /\ extraction' = [extraction EXCEPT
                        !.done = TRUE,
                        !.result = get_title(extraction.args.has_title,
                                             extraction.args.title_text,
                                             extraction.args.h1_list,
                                             extraction.args.title_text_fb)]
    /\ UNCHANGED <<article, last, ncalls, caller_config>>

SpecTitle == InitTitle /\ [][GetTitle]_vars

-----------------------------------------------------------------------------
(* get_publishing_date.  A datetime is written as the text of its date;    *)
(* date_matches holds [date, score] and, for the properties, the source    *)
(* the candidate comes from.                                               *)

\* how many ld+json script tags, items of an @graph and date meta tags a
\* document has
MaxScripts == 1
MaxGraphItems == 1
MaxMetaTags == 2

\* dateutil's parser on the date strings of the documents: the datetime, or
\* None where it raises ValueError
date_parser(date_str) ==
    CASE date_str = "2023/05/10" -> "2023-05-10"
      [] date_str = "2020-02-02T10:00:00Z" -> "2020-02-02"
      [] date_str = "2099-01-01" -> "2099-01-01"
      [] date_str = "1990-06-15" -> "1990-06-15"
      [] date_str = "March 3, 2021" -> "2021-03-03"
      [] OTHER -> None

\* get_publishing_date.parse_date_str
parse_date_str(date_str) ==
    IF date_str \in {None, ""} THEN None ELSE date_parser(date_str)

\* the days from 1970-01-01 to the date
DayNumber(datetime_obj) ==
    CASE datetime_obj = "2023-05-10" -> 19487
      [] datetime_obj = "2020-02-02" -> 18294
      [] datetime_obj = "2099-01-01" -> 47117
      [] datetime_obj = "1990-06-15" -> 7470
      [] datetime_obj = "2021-03-03" -> 18689

\* datetime.now().date(): 2024-01-01
Today == 19723

\* what STRICT_DATE_REGEX finds in the url: None, a date, a date without day
UrlDateStrings == {None, "2023/05/10", "2014/04/"}

\* the items of an @graph: an object with or without datePublished, or a
\* value that is no object
GraphItems ==
    [is_object : {TRUE}, datePublished : {None, "2020-02-02T10:00:00Z", "soon"}]
    \cup [is_object : {FALSE}, datePublished : {None}]

\* the text of an ld+json script tag: None (an empty tag), text that is not
\* JSON, a JSON array, or a JSON object with the items under "@graph"; items
\* are the values written in the text
ScriptTexts ==
    [kind : {"none"}, items : {<<>>}]
    \cup [kind : {"invalid", "array", "object"}, items : Lists(GraphItems, MaxGraphItems)]

\* the ld+json script tags: yoast tells class="yoast-schema-graph"
ScriptTags == [yoast : BOOLEAN, text : ScriptTexts]

\* the meta tags found for PUBLISH_DATE_TAGS, in the order they are found;
\* by_name tells that the name attribute is the known value
MetaTags ==
    [date_str : {None, "2099-01-01", "1990-06-15", "March 3, 2021"}, by_name : BOOLEAN]

Candidate(datetime_obj, score, source) ==
    [date |-> datetime_obj, score |-> score, source |-> source]

\* the candidate of the url
UrlMatches(date_str) ==
    IF date_str # None /\ parse_date_str(date_str) # None
    THEN <<Candidate(parse_date_str(date_str), 10, "url")>>
    ELSE <<>>

RECURSIVE GraphMatches(_)
\* the loop over the items of @graph: the candidates, and the exception
\* raised by item.get on a value that is no object
GraphMatches(g) ==
    IF g = <<>> THEN [matches |-> <<>>, raised |-> NoException]
    ELSE IF ~Head(g).is_object
    THEN [matches |-> <<>>,
          raised |-> [type |-> "AttributeError", msg |-> "object has no attribute 'get'"]]
    ELSE LET datetime_obj == parse_date_str(Head(g).datePublished)
             rest == GraphMatches(Tail(g))
         IN  [rest EXCEPT !.matches =
                (IF datetime_obj # None THEN <<Candidate(datetime_obj, 10, "json-ld")>>
                 ELSE <<>>) \o @]

\* the first datePublished the regex finds in the text, None if it finds none
FirstDatePublished(items) ==
    IF \E i \in 1..Len(items) : items[i].datePublished # None
    THEN items[CHOOSE i \in 1..Len(items) :
                  /\ items[i].datePublished # None
                  /\ \A j \in 1..(i - 1) : items[j].datePublished = None].datePublished
    ELSE None

\* the body of the loop over the script tags, for one tag
ScriptMatches(script_tag) ==
    IF script_tag.yoast
    THEN IF script_tag.text.kind \in {"none", "invalid"}
         THEN [matches |-> <<>>, raised |-> NoException]
         ELSE IF script_tag.text.kind = "array"
         THEN [matches |-> <<>>,
               raised |-> [type |-> "AttributeError",
                           msg |-> "object has no attribute 'get'"]]
         ELSE GraphMatches(script_tag.text.items)
    ELSE IF script_tag.text.kind = "none"
         THEN [matches |-> <<>>,
               raised |-> [type |-> "TypeError",
                           msg |-> "expected string or bytes-like object"]]
         ELSE LET date_str == FirstDatePublished(script_tag.text.items)
              IN  [matches |-> IF date_str # None /\ parse_date_str(date_str) # None
                               THEN <<Candidate(parse_date_str(date_str), 9, "json-ld")>>
                               ELSE <<>>,
                   raised |-> NoException]

RECURSIVE ScriptsMatches(_)
\* the loop over the script tags; it ends at the first exception
ScriptsMatches(script_tags) ==
    IF script_tags = <<>> THEN [matches |-> <<>>, raised |-> NoException]
    ELSE LET first == ScriptMatches(Head(script_tags))
             rest == ScriptsMatches(Tail(script_tags))
         IN  IF first.raised # NoException THEN first
             ELSE [rest EXCEPT !.matches = first.matches \o @]

\* MetaScore with a slip: a date in the future gains what it should lose
MetaScore_rewarding_future(meta_tag, datetime_obj) ==
    LET score == IF meta_tag.by_name THEN 6 + 2 ELSE 6
        days_diff == Today - DayNumber(datetime_obj)
    IN  IF days_diff < 0 THEN score + 2
        ELSE IF days_diff > 25 * 365 THEN score - 1
        ELSE score

\* the score of a meta tag's date
MetaScore(meta_tag, datetime_obj) ==
    LET score == IF meta_tag.by_name THEN 6 + 2 ELSE 6
        days_diff == Today - DayNumber(datetime_obj)
    IN  IF days_diff < 0 THEN score - 2
        ELSE IF days_diff > 25 * 365 THEN score - 1
        ELSE score

RECURSIVE MetaMatches(_)
\* the loop over the meta tags
MetaMatches(meta_tags) ==
    IF meta_tags = <<>> THEN <<>>
    ELSE LET datetime_obj == parse_date_str(Head(meta_tags).date_str)
         IN  (IF datetime_obj # None
              THEN <<Candidate(datetime_obj, MetaScore(Head(meta_tags), datetime_obj), "meta")>>
              ELSE <<>>) \o MetaMatches(Tail(meta_tags))

\* date_matches before it is sorted, and the exception raised on the way
DateMatches(args) ==
    LET scripts == ScriptsMatches(args.scripts)
    IN  [matches |-> UrlMatches(args.url_date) \o scripts.matches
                        \o (IF scripts.raised = NoException
                            THEN MetaMatches(args.meta_tags) ELSE <<>>),
         raised |-> scripts.raised]

\* one step of the sort, with a slip: the match goes before its equals
InsertByScore_before_equals(sorted, match) ==
    LET before == SelectSeq(sorted, LAMBDA m : m.score > match.score)
        after == SelectSeq(sorted, LAMBDA m : m.score <= match.score)
    IN  before \o <<match>> \o after

\* one step of list.sort(key=score, reverse=True), a stable sort: the match
\* goes after the matches of a higher or the same score
InsertByScore(sorted, match) ==
    LET before == SelectSeq(sorted, LAMBDA m : m.score >= match.score)
        after == SelectSeq(sorted, LAMBDA m : m.score < match.score)
    IN  before \o <<match>> \o after

RECURSIVE SortByScore(_, _)
\* date_matches.sort(key=lambda x: x[1], reverse=True)
SortByScore(sorted, date_matches) ==
    IF date_matches = <<>> THEN sorted
    ELSE SortByScore(InsertByScore(sorted, Head(date_matches)), Tail(date_matches))

\* ContentExtractor.get_publishing_date: the date returned or the exception
get_publishing_date(args) ==
    LET m == DateMatches(args)
        date_matches == SortByScore(<<>>, m.matches)
    IN  IF m.raised # NoException THEN [result |-> None, raised |-> m.raised]
        ELSE [result |-> IF date_matches # <<>> THEN date_matches[1].date ELSE None,
              raised |-> NoException]

InitDate ==
    /\ NoArticleCalls
    /\ \E url_date \in UrlDateStrings, scripts \in Lists(ScriptTags, MaxScripts),
          meta_tags \in Lists(MetaTags, MaxMetaTags) :
          extraction = [fn |-> "get_publishing_date",
                        args |-> [url_date |-> url_date, scripts |-> scripts,
                                  meta_tags |-> meta_tags],
                        done |-> FALSE, result |-> None, raised |-> NoException]

GetPublishingDate ==
    /\ ~extraction.done
    /\ extraction' = [extraction EXCEPT
                        !.done = TRUE,
                        !.result = get_publishing_date(extraction.args).result,
                        !.raised = get_publishing_date(extraction.args).raised]
    /\ UNCHANGED <<article, last, ncalls, caller_config>>

SpecDate == InitDate /\ [][GetPublishingDate]_vars

-----------------------------------------------------------------------------
(* get_meta_data.  A value of the data is a string, an integer (written as *)
(* its digits) or a mapping from keys to values.                           *)

\* how many meta tags a document has
MaxMetas == 3

StrValue(text) == [kind |-> "str", value |-> text, items |-> <<>>]
IntValue(digits) == [kind |-> "int", value |-> digits, items |-> <<>>]
Dict(items) == [kind |-> "dict", value |-> <<>>, items |-> items]

\* what dict.get gives for a key that is not there
Missing == [kind |-> "None", value |-> <<>>, items |-> <<>>]

\* isinstance(value, str) or isinstance(value, int)
IsScalar(node) == node.kind \in {"str", "int"}

\* str.isdigit()
isdigit(text) ==
    text # <<>> /\ \A i \in 1..Len(text) : \E k \in 1..Len(Digits) : text[i] = Digits[k]

RECURSIVE WithoutLeadingZeros(_)
WithoutLeadingZeros(digits) ==
    IF Len(digits) > 1 /\ Head(digits) = "0" THEN WithoutLeadingZeros(Tail(digits))
    ELSE digits

\* the value stored for the text of a content attribute
MetaValue(text) == IF isdigit(text) THEN IntValue(WithoutLeadingZeros(text)) ELSE StrValue(text)

\* dict.get(key)
Get(items, key) == IF key \in DOMAIN items THEN items[key] ELSE Missing

\* items[key] = value
Put(items, key, value) ==
    [k \in DOMAIN items \cup {key} |-> IF k = key THEN value ELSE items[k]]

\* not value
IsFalsy(node) ==
    \/ node.kind = "None"
    \/ node.kind = "str" /\ node.value = <<>>
    \/ node.kind = "int" /\ node.value = <<"0">>
    \/ node.kind = "dict" /\ DOMAIN node.items = {}

RECURSIVE SetAlongParts(_, _, _)
\* get_meta_data, the loop over the parts of a key: the mapping ref after
\* the value is stored under the parts
SetAlongParts(ref, parts, value) ==
    IF Len(parts) = 1 THEN Put(ref, parts[1], value)
    ELSE LET old == Get(ref, parts[1])
             next == IF IsFalsy(old) THEN <<>>
                     ELSE IF IsScalar(old) THEN Put(<<>>, Chars("identifier"), old)
                     ELSE old.items
         IN  Put(ref, parts[1], Dict(SetAlongParts(next, Tail(parts), value)))

\* get_meta_data, the body of the loop for one meta tag
SetMeta(data, prop) ==
    LET key == strip(prop.key)
        value == MetaValue(strip(prop.value))
        parts == Split(key, <<":">>)
        key_head == Head(parts)
        ref == Get(data, key_head)
        top == IF ref.kind = "None" THEN <<>>
               ELSE IF IsScalar(ref) THEN Put(<<>>, key_head, ref)
               ELSE ref.items
    IN  IF prop.key = <<>> \/ prop.value = <<>> THEN data
        ELSE IF ~Contains(key, <<":">>) THEN Put(data, key, value)
        ELSE Put(data, key_head, Dict(SetAlongParts(top, Tail(parts), value)))

RECURSIVE get_meta_data_from(_, _)
get_meta_data_from(data, properties) ==
    IF properties = <<>> THEN data
    ELSE get_meta_data_from(SetMeta(data, Head(properties)), Tail(properties))

\* ContentExtractor.get_meta_data for a document whose meta tags hold the
\* keys and values of properties
get_meta_data(properties) == get_meta_data_from(<<>>, properties)

\* the property (or name) and the content (or value) of a meta tag
MetaProperties ==
    [ key : {Chars("og"), Chars("og:image"), Chars("og:image:width")},
      value : {<<>>, Chars("0"), Chars("x"), Chars("12")} ]

InitMeta ==
    /\ NoArticleCalls
    /\ \E properties \in Lists(MetaProperties, MaxMetas) :
          extraction = [fn |-> "get_meta_data", args |-> properties, done |-> FALSE,
                        result |-> <<>>, raised |-> NoException]

GetMetaData ==
    /\ ~extraction.done
    /\ extraction' = [extraction EXCEPT !.done = TRUE,
                                        !.result = get_meta_data(extraction.args)]
    /\ UNCHANGED <<article, last, ncalls, caller_config>>

SpecMeta == InitMeta /\ [][GetMetaData]_vars

-----------------------------------------------------------------------------
(* parse_byline, from the line without tags and without its By marker on.  *)

\* how long a byline is
MaxBylineLen == 5

\* the characters of a byline: letters (of the word and), a digit, a space
\* and a comma
BylineChars == {"a", "n", "d", "1", " ", ","}

\* a character of the class [\w'\-\.]
IsNameChar(ch) ==
    \/ \E i \in 1..Len(UpperCase) : ch \in {UpperCase[i], LowerCase[i]}
    \/ \E i \in 1..Len(Digits) : ch = Digits[i]
    \/ ch \in {"_", "'", "-", "."}

RECURSIVE re_split(_)
\* re.split(r"[^\w'\-\.]", text): text cut at every character outside the class
re_split(text) ==
    LET cuts == {i \in 1..Len(text) : ~IsNameChar(text[i])}
        first == CHOOSE i \in cuts : \A j \in cuts : i <= j
    IN  IF cuts = {} THEN <<text>>
        ELSE <<SubSeq(text, 1, first - 1)>> \o re_split(SubSeq(text, first + 1, Len(text)))

\* contains_digits
contains_digits(d) == \E i \in 1..Len(d) : \E j \in 1..Len(Digits) : d[i] = Digits[j]

\* delimiters = ["and", ",", ""]
delimiters == {Chars("and"), Chars(","), <<>>}

RECURSIVE group_tokens(_, _, _)
\* parse_byline, the loop over the tokens: _authors and curname after it
group_tokens(name_tokens, _authors, curname) ==
    IF name_tokens = <<>> THEN [_authors |-> _authors, curname |-> curname]
    ELSE LET token == Head(name_tokens)
         IN  IF token \in delimiters
             THEN IF Len(curname) > 0
                  THEN group_tokens(Tail(name_tokens),
                                    Append(_authors, Join(curname, <<" ">>)), <<>>)
                  ELSE group_tokens(Tail(name_tokens), _authors, curname)
             ELSE IF ~contains_digits(token)
             THEN group_tokens(Tail(name_tokens), _authors, Append(curname, token))
             ELSE group_tokens(Tail(name_tokens), _authors, curname)

\* get_authors.parse_byline, from search_str.strip() on
parse_byline(search_str) ==
    LET split == re_split(strip(search_str))
        name_tokens == [i \in 1..Len(split) |-> strip(split[i])]
        loop == group_tokens(name_tokens, <<>>, <<>>)
        valid_name == Len(loop.curname) >= 2
    IN  IF valid_name
        THEN Append(loop._authors, Join(loop.curname, <<" ">>))
        ELSE loop._authors

InitByline ==
    /\ NoArticleCalls
    /\ \E search_str \in Texts(BylineChars, MaxBylineLen) :
          extraction = [fn |-> "parse_byline", args |-> search_str, done |-> FALSE,
                        result |-> <<>>, raised |-> NoException]

ParseByline ==
    /\ ~extraction.done
    /\ extraction' = [extraction EXCEPT !.done = TRUE,
                                        !.result = parse_byline(extraction.args)]
    /\ UNCHANGED <<article, last, ncalls, caller_config>>

SpecByline == InitByline /\ [][ParseByline]_vars

-----------------------------------------------------------------------------
(* get_canonical_link.  A url is a text; urlparse cuts it into scheme,     *)
(* netloc and path, and hostname is the netloc in lower case without port. *)

\* the first place in text of a character of chars, Len(text) + 1 if none
FirstOf(text, chars) ==
    LET places == {i \in 1..Len(text) : text[i] \in chars}
    IN  IF places = {} THEN Len(text) + 1
        ELSE CHOOSE i \in places : \A j \in places : i <= j

\* the text before the first character of chars
UpTo(text, chars) == SubSeq(text, 1, FirstOf(text, chars) - 1)

\* urlparse, the scheme: the place of the colon that ends it, 0 when the url
\* has none
SchemeEnd(url) ==
    LET colon == FirstOf(url, {":"})
    IN  IF /\ 1 < colon /\ colon <= Len(url)
           /\ \A i \in 1..(colon - 1) :
                 \E k \in 1..Len(LowerCase) : url[i] \in {LowerCase[k], UpperCase[k]}
        THEN colon ELSE 0

\* urlparse, the netloc of the text after the scheme
NetlocOf(rest) ==
    IF StartsWith(rest, Chars("//"))
    THEN UpTo(SubSeq(rest, 3, Len(rest)), {"/", "?", "#"})
    ELSE <<>>

\* urlparse, the text after the netloc
AfterNetloc(rest, netloc) ==
    IF StartsWith(rest, Chars("//")) THEN SubSeq(rest, 3 + Len(netloc), Len(rest))
    ELSE rest

\* urlparse, the result for a url cut into scheme, rest and netloc; the
\* hostname is the netloc in lower case without port, and the empty hostname
\* stands for None, the hostname of a url without netloc
ParsedUrl(url_scheme, rest, netloc, allow_fragments) ==
    [ scheme |-> url_scheme,
      netloc |-> netloc,
      path |-> UpTo(AfterNetloc(rest, netloc),
                    IF allow_fragments THEN {"?", "#"} ELSE {"?"}),
      hostname |-> lower(UpTo(netloc, {":"})) ]

\* urlparse for a url whose scheme ends at colon
urlparse_at(url, colon, allow_fragments) ==
    ParsedUrl(lower(SubSeq(url, 1, colon - 1)),
              SubSeq(url, colon + 1, Len(url)),
              NetlocOf(SubSeq(url, colon + 1, Len(url))),
              allow_fragments)

\* urlparse(url, allow_fragments=...): scheme, netloc, path and hostname of a
\* url without user and password.  A fragment is cut off the path only when
\* fragments are allowed
urlparse_fragments(url, allow_fragments) ==
    urlparse_at(url, SchemeEnd(url), allow_fragments)

\* urlparse(url)
urlparse(url) == urlparse_fragments(url, TRUE)

\* urlunparse((scheme, netloc, url, "", "", "")) for an http(s) scheme
urlunparse(url_scheme, netloc, url) ==
    url_scheme \o Chars("://") \o netloc
        \o (IF url # <<>> /\ Head(url) # "/" THEN <<"/">> ELSE <<>>) \o url

\* the pattern hostname(?=/)/ matches text at place i: a dot of the hostname
\* stands for any character, as the hostname is put into the pattern as it is
HostnamePatternAt(text, i, hostname) ==
    /\ i + Len(hostname) <= Len(text)
    /\ \A k \in 1..Len(hostname) : hostname[k] = "." \/ hostname[k] = text[i + k - 1]
    /\ text[i + Len(hostname)] = "/"

\* re.match(".*{}(?=/)/(.*)".format(hostname), text): group(1) in a list, the
\* empty list when there is no match; the first .* is greedy, so the last
\* place that matches is taken
strip_hostname_in_meta_path(hostname, text) ==
    LET places == {i \in 1..Len(text) : HostnamePatternAt(text, i, hostname)}
        last_place == CHOOSE i \in places : \A j \in places : j <= i
    IN  IF places = {} THEN <<>>
        ELSE <<SubSeq(text, last_place + Len(hostname) + 1, Len(text))>>

\* ContentExtractor.get_meta_content for a tag with the given content
get_meta_content(content) == strip(content)

\* ContentExtractor.get_canonical_link; canonical is the href of the first
\* link rel=canonical (empty without one), og_content the content of og:url
get_canonical_link(article_url, canonical, og_content) ==
    LET og_url == get_meta_content(og_content)
        chosen == IF canonical # <<>> THEN canonical ELSE og_url
        meta_url == strip(chosen)
        parsed_meta_url == urlparse(meta_url)
        parsed_article_url == urlparse(article_url)
        match == strip_hostname_in_meta_path(parsed_article_url.hostname,
                                             parsed_meta_url.path)
        true_path == IF match # <<>> THEN match[1] ELSE parsed_meta_url.path
    IN  IF chosen = <<>> THEN <<>>
        ELSE IF parsed_meta_url.hostname # <<>> THEN meta_url
        ELSE urlunparse(parsed_article_url.scheme, parsed_article_url.hostname,
                        true_path)

\* the urls of the articles
CanonicalArticleUrls ==
    {Chars("https://example.com/news/x"), Chars("http://News.a.co:80/x")}

\* what a link rel=canonical or an og:url holds
MetaUrls ==
    { Chars(""), Chars(" "), Chars("example.com/article.html"),
      Chars("exampleXcom/article.html"), Chars("/article.html"),
      Chars("article.html?page=2"), Chars("https://other.org/a"),
      Chars(" //cdn.example.com/a "), Chars("/m/example.com/news/example.com/c"),
      Chars("news.a.co/b"), Chars("example.com") }

InitCanonical ==
    /\ NoArticleCalls
    /\ \E article_url \in CanonicalArticleUrls, canonical \in MetaUrls,
          og_content \in MetaUrls :
          extraction = [fn |-> "get_canonical_link",
                        args |-> [article_url |-> article_url, canonical |-> canonical,
                                  og_content |-> og_content],
                        done |-> FALSE, result |-> <<>>, raised |-> NoException]

GetCanonicalLink ==
    /\ ~extraction.done
    /\ extraction' =
          [extraction EXCEPT
             !.done = TRUE,
             !.result = get_canonical_link(extraction.args.article_url,
                                           extraction.args.canonical,
                                           extraction.args.og_content)]
    /\ UNCHANGED <<article, last, ncalls, caller_config>>

SpecCanonical == InitCanonical /\ [][GetCanonicalLink]_vars

-----------------------------------------------------------------------------
(* get_category_urls.  page_urls are the hrefs of the a tags of the page.  *)

\* how many links a page has
MaxLinks == 2

\* the public suffixes tldextract knows, as lists of labels
PublicSuffixes == {<<Chars("com")>>, <<Chars("org")>>, <<Chars("co"), Chars("uk")>>}

\* the labels of the hostname of url
HostLabels(url) ==
    LET hostname == urlparse(url).hostname
    IN  IF hostname = <<>> THEN <<>> ELSE Split(hostname, <<".">>)

\* how many labels the longest public suffix at the end of labels has
SuffixLength(labels) ==
    LET n == Len(labels)
        lengths == {k \in 0..n : k = 0 \/ SubSeq(labels, n - k + 1, n) \in PublicSuffixes}
    IN  CHOOSE l \in lengths : \A m \in lengths : m <= l

\* subdomain, domain and suffix of labels whose last k labels are the suffix
tld_parts(labels, k) ==
    [ subdomain |-> IF Len(labels) - k > 1
                    THEN Join(SubSeq(labels, 1, Len(labels) - k - 1), <<".">>)
                    ELSE <<>>,
      domain |-> IF Len(labels) - k > 0 THEN labels[Len(labels) - k] ELSE <<>>,
      suffix |-> Join(SubSeq(labels, Len(labels) - k + 1, Len(labels)), <<".">>) ]

\* tldextract.extract(url): subdomain, domain and suffix of the hostname, the
\* suffix being the longest public suffix the hostname ends with
tldextract(url) == tld_parts(HostLabels(url), SuffixLength(HostLabels(url)))

\* url_stopwords
url_stopwords == {Chars("about")}

\* lst without the first element equal to elem
RemoveFirst(lst, elem) ==
    LET places == {i \in 1..Len(lst) : lst[i] = elem}
        first == CHOOSE i \in places : \A j \in places : i <= j
    IN  IF places = {} THEN lst
        ELSE SubSeq(lst, 1, first - 1) \o SubSeq(lst, first + 1, Len(lst))

\* related_category with a slip: a link of another domain is dropped only
\* when verbose is on, and is appended otherwise
related_category_if_verbose(p_url, source_url, verbose) ==
    LET parsed == urlparse_fragments(p_url, FALSE)
        child_tld == tldextract(p_url)
        domain_tld == tldextract(source_url)
        child_subdomain_parts == Split(child_tld.subdomain, <<".">>)
        subdomain_contains ==
            \E i \in 1..Len(child_subdomain_parts) :
                child_subdomain_parts[i] = domain_tld.domain
    IN  IF ~subdomain_contains /\ child_tld.domain # domain_tld.domain /\ verbose
        THEN <<>>
        ELSE IF child_tld.subdomain \in {Chars("m"), Chars("i")} THEN <<>>
        ELSE <<parsed.scheme \o Chars("://") \o parsed.netloc>>

\* get_category_urls, the branch of a link with a domain: the category the
\* link adds to valid_categories, in a list, the empty list when it adds none
related_category(p_url, source_url, verbose) ==
    LET parsed == urlparse_fragments(p_url, FALSE)
        child_tld == tldextract(p_url)
        domain_tld == tldextract(source_url)
        child_subdomain_parts == Split(child_tld.subdomain, <<".">>)
        subdomain_contains ==
            \E i \in 1..Len(child_subdomain_parts) :
                child_subdomain_parts[i] = domain_tld.domain
    IN  IF ~subdomain_contains /\ child_tld.domain # domain_tld.domain
        THEN (IF verbose THEN <<>> ELSE <<>>)
        ELSE IF child_tld.subdomain \in {Chars("m"), Chars("i")} THEN <<>>
        ELSE <<parsed.scheme \o Chars("://") \o parsed.netloc>>

\* get_category_urls, the branch of a link without domain: a path of one
\* short chunk is a category
path_category(p_url) ==
    LET parsed == urlparse_fragments(p_url, FALSE)
        chunks == SelectSeq(Split(parsed.path, <<"/">>), LAMBDA x : Len(x) > 0)
        path_chunks == RemoveFirst(chunks, Chars("index.html"))
    IN  IF Len(path_chunks) = 1 /\ Len(path_chunks[1]) < 14
        THEN <<parsed.netloc \o parsed.path>>
        ELSE <<>>

\* get_category_urls, the body of the first loop for one link
category_of(p_url, source_url, verbose) ==
    LET parsed == urlparse_fragments(p_url, FALSE)
    IN  IF parsed.netloc = <<>> /\ parsed.path = <<>> THEN <<>>
        ELSE IF parsed.path # <<>> /\ Head(parsed.path) = "#" THEN <<>>
        ELSE IF parsed.scheme # <<>> /\ parsed.scheme \notin {Chars("http"), Chars("https")}
        THEN <<>>
        ELSE IF parsed.netloc # <<>> THEN related_category(p_url, source_url, verbose)
        ELSE path_category(p_url)

RECURSIVE valid_categories_of(_, _, _)
\* get_category_urls, the first loop: valid_categories
valid_categories_of(page_urls, source_url, verbose) ==
    IF page_urls = <<>> THEN <<>>
    ELSE category_of(Head(page_urls), source_url, verbose)
            \o valid_categories_of(Tail(page_urls), source_url, verbose)

\* get_category_urls, the second loop: no stopword in path and subdomain
has_no_stopword(p_url) ==
    LET conjunction == urlparse(p_url).path \o <<" ">> \o tldextract(p_url).subdomain
    IN  \A badword \in url_stopwords : ~Contains(lower(conjunction), lower(badword))

\* get_category_urls, the third loop: the scheme is completed and one
\* trailing slash is cut
normalized_category(p_url) ==
    LET with_scheme == IF StartsWith(p_url, Chars("://")) THEN Chars("http") \o p_url
                       ELSE IF StartsWith(p_url, Chars("//")) THEN Chars("http:") \o p_url
                       ELSE p_url
    IN  IF with_scheme # <<>> /\ with_scheme[Len(with_scheme)] = "/"
        THEN SubSeq(with_scheme, 1, Len(with_scheme) - 1)
        ELSE with_scheme

\* urls.prepare_url(p_url, source_url) for a category: a url with a scheme
\* is kept, a path is joined to the source url
prepare_category_url(p_url, source_url) ==
    IF urlparse(p_url).scheme # <<>> THEN p_url
    ELSE LET source == urlparse(source_url)
         IN  source.scheme \o Chars("://") \o source.netloc \o p_url

\* ContentExtractor.get_category_urls: valid_categories after the first loop
\* and the category urls returned, which come in no order
get_category_urls(source_url, page_urls, verbose) ==
    LET valid_categories == valid_categories_of(page_urls, source_url, verbose)
        _valid_categories == Append(SelectSeq(valid_categories, has_no_stopword), <<"/">>)
    IN  [ valid_categories |-> valid_categories,
          category_urls |->
              { prepare_category_url(normalized_category(_valid_categories[i]), source_url) :
                  i \in 1..Len(_valid_categories) } ]

\* the urls of the sources
CategorySources == {Chars("http://espn.com"), Chars("https://news.go.com")}

\* the hrefs of a page
PageLinks ==
    { Chars("http://m.espn.com/nba"), Chars("http://espn.go.com/nfl"),
      Chars("http://unrelated.com/x"), Chars("http://espn.org/mlb"),
      Chars("https://www.espn.com/"), Chars("http://i.espn.co.uk"),
      Chars("http://m.espn.go.com/x"), Chars("/nba"), Chars("#top"),
      Chars("mailto:a@espn.com"), Chars("/about/index.html") }

InitCategories ==
    /\ NoArticleCalls
    /\ \E source_url \in CategorySources, page_urls \in Lists(PageLinks, MaxLinks),
          verbose \in BOOLEAN :
          extraction = [fn |-> "get_category_urls",
                        args |-> [source_url |-> source_url, page_urls |-> page_urls,
                                  verbose |-> verbose],
                        done |-> FALSE, result |-> <<>>, raised |-> NoException]

GetCategoryUrls ==
    /\ ~extraction.done
    /\ extraction' =
          [extraction EXCEPT
             !.done = TRUE,
             !.result = get_category_urls(extraction.args.source_url,
                                          extraction.args.page_urls,
                                          extraction.args.verbose)]
    /\ UNCHANGED <<article, last, ncalls, caller_config>>

SpecCategories == InitCategories /\ [][GetCategoryUrls]_vars

-----------------------------------------------------------------------------
(* Properties.  A step of Next is one call; last' names the call and       *)
(* article, article' are the object before and after it.                   *)

\* the ExtractionState of the article
ExtractionState(self) ==
    CASE self.download_state = NOT_STARTED -> "NotStarted"
      [] self.download_state = FAILED_RESPONSE -> "FailedFetch"
      [] self.download_state = SUCCESS /\ ~self.is_parsed -> "Fetched"
      [] OTHER -> "Parsed"

\* C1: parse() called while download_state is NOT_STARTED or FAILED_RESPONSE
\* raises ArticleException with a message naming the missing or the failed
\* download, and no field of the article changes.
C1_ParseNeedsDownload ==
    [][ (last'.op = "parse" /\ article.download_state \in {NOT_STARTED, FAILED_RESPONSE})
        => /\ last'.raised.type = "ArticleException"
           /\ last'.raised.msg =
                IF article.download_state = NOT_STARTED
                THEN "You must download() an article first!"
                ELSE "Article download() failed with "
                        \o article.download_exception_msg \o " on URL " \o article.url
           /\ article' = article ]_vars

\* a parse() that was refused on an article whose download had failed
C1_Witness ==
    /\ last.op = "parse"
    /\ last.raised.type = "ArticleException"
    /\ article.download_state = FAILED_RESPONSE

\* C2: nlp() does its work exactly when the article is Parsed; from any
\* other state it raises ArticleException and keywords and summary keep
\* their values.
C2_NlpNeedsParsed ==
    [][ last'.op = "nlp"
        => IF ExtractionState(article) = "Parsed"
           THEN last'.raised = NoException
           ELSE /\ last'.raised.type = "ArticleException"
                /\ article'.keywords = article.keywords
                /\ article'.summary = article.summary ]_vars

\* an nlp() that was refused on a Fetched article that was never parsed
C2_Witness ==
    /\ last.op = "nlp"
    /\ last.raised.type = "ArticleException"
    /\ ExtractionState(article) = "Fetched"

\* C3 as stated: the extraction state only advances; FailedFetch is
\* terminal and a Fetched or Parsed article never goes back to FailedFetch
\* or NotStarted.
C3_StateOnlyAdvances ==
    [][ \/ ExtractionState(article') = ExtractionState(article)
        \/ ExtractionState(article) = "NotStarted"
        \/ ExtractionState(article) = "Fetched" /\ ExtractionState(article') = "Parsed"
      ]_vars

\* C3 amended: parse() and nlp() never change download_state, the only
\* state change they make is parse() taking Fetched to Parsed;
\* download_state never returns to NOT_STARTED and is_parsed is never reset.
\* (A later download() may still take FailedFetch to Fetched, or Fetched and
\* Parsed to FailedFetch.)
C3_ParseAndNlpOnlyAdvance ==
    [][ /\ last'.op \in {"parse", "nlp"}
           => /\ article'.download_state = article.download_state
              /\ \/ ExtractionState(article') = ExtractionState(article)
                 \/ /\ last'.op = "parse"
                    /\ ExtractionState(article) = "Fetched"
                    /\ ExtractionState(article') = "Parsed"
        /\ article.download_state # NOT_STARTED => article'.download_state # NOT_STARTED
        /\ article.is_parsed => article'.is_parsed ]_vars

\* a parsed article whose later download() failed: is_parsed is kept and the
\* state is FAILED_RESPONSE
C3_Witness ==
    /\ last.op = "download"
    /\ article.is_parsed
    /\ article.download_state = FAILED_RESPONSE

\* the requests of a call that follow a meta refresh, and those that follow
\* a read-more link (positions in the call's list of requests)
RefreshRequests(l) == {i \in DOMAIN l.requests : l.requests[i].fn = "get_html"}

ReadMoreRequests(l) ==
    {i \in DOMAIN l.requests :
        l.requests[i].fn = "get_html_2XX_only" /\ l.requests[i].arg # None}

\* the request got an answer that is not a failure
Succeeded(req) == req.outcome.type = "response" /\ req.outcome.status_code < 400

\* the call was a download() whose own fetch of the article failed
ArticleFetchFailed(l) ==
    /\ l.op = "download"
    /\ l.args.input_html = None
    /\ l.requests # <<>>
    /\ ~Succeeded(l.requests[1])

\* C4 as stated: a download() that returns leaves the article Fetched or
\* FailedFetch, never NOT_STARTED.
C4_DownloadLeavesNotStarted ==
    (last.op = "download" /\ last.raised = NoException)
        => article.download_state \in {SUCCESS, FAILED_RESPONSE}

\* C5: when the article's own fetch fails (OSError on the file, status >= 400
\* or RequestException), download() raises nothing, makes no other request,
\* and returns with download_state = FAILED_RESPONSE,
\* download_exception_msg giving the reason (the OS error text for a file)
\* and html as it was before the call.
C5_FetchFailureIsRecorded ==
    [][ ArticleFetchFailed(last')
        => LET out == last'.requests[1].outcome
           IN  /\ last'.raised = NoException
               /\ Len(last'.requests) = 1
               /\ article'.download_state = FAILED_RESPONSE
               /\ article'.html = article.html
               /\ IF out.type \in {"OSError", "RequestException"}
                  THEN article'.download_exception_msg = out.text
                  ELSE article'.download_exception_msg \in
                         { "Status code " \o ToString(out.status_code) \o " for url None" }
                         \cup { "Website protected with " \o label \o ", url: None" :
                                   label \in {"Cloudflare", "CloudFront", "PerimeterX"} } ]_vars

\* a file that could not be read, on an article that had html from an
\* earlier download: the html is still there
C5_Witness ==
    /\ ArticleFetchFailed(last)
    /\ last.requests[1].outcome.type = "OSError"
    /\ article.download_state = FAILED_RESPONSE
    /\ article.html # ""

\* C6: one download() fetches at most one meta-refresh target, also when the
\* page it gets from the target has a refresh directive of its own.
C6_OneRefreshHop ==
    last.op = "download" => Cardinality(RefreshRequests(last)) <= 1

\* a download() that followed a refresh to a page that refreshes again
C6_Witness ==
    /\ last.op = "download"
    /\ \E i \in RefreshRequests(last) :
          extract_meta_refresh(last.requests[i].outcome.html) # None

\* C7 as stated: with ignore_read_more = true, or without a read_more_link
\* selector, download() fetches no read-more link and leaves url unchanged.
C7_NoReadMoreWhenIgnored ==
    [][ (last'.op = "download"
         /\ (last'.args.ignore_read_more \/ article.read_more_link = ""))
        => /\ ReadMoreRequests(last') = {}
           /\ article'.url = article.url ]_vars

\* C8 as stated: a download() fetches at most one read-more link, the first
\* match with an href resolved against the current url; if the fetch
\* succeeds html and url become the link's content and address, if it fails
\* html and url keep their values from before the read-more step and
\* download_state ends as SUCCESS.
C8_ReadMoreFirstLink ==
    [][ last'.op = "download"
        => /\ Cardinality(ReadMoreRequests(last')) <= 1
           /\ \A i \in ReadMoreRequests(last') :
                LET req == last'.requests[i]
                    before == IF i = 1 THEN last'.args.input_html
                              ELSE last'.requests[i - 1].outcome.html
                IN  /\ req.target = prepare_url("/more", article.url)
                    /\ IF Succeeded(req)
                       THEN /\ article'.html = req.outcome.html
                            /\ article'.url = req.target
                       ELSE /\ article'.html = before
                            /\ article'.url = article.url
                            /\ article'.download_state = SUCCESS ]_vars

\* C9 as stated: a download() that follows a meta refresh to a page with
\* content (and no read-more link after it) ends with the html and the url
\* of the refresh target, so url differs from original_url.
C9_RefreshReplacesUrl ==
    [][ (last'.op = "download" /\ last'.raised = NoException
         /\ ReadMoreRequests(last') = {})
        => \A i \in RefreshRequests(last') :
              last'.requests[i].outcome.html # ""
              => /\ article'.html = last'.requests[i].outcome.html
                 /\ article'.url = last'.requests[i].target
                 /\ article'.url # article'.original_url ]_vars

ConstructedDefaults(self) ==
    /\ self.title = <<>>
    /\ self.authors = <<>>
    /\ self.text = ""
    /\ self.article_html = ""
    /\ self.publish_date = ""
    /\ self.meta_data = "{}"
    /\ self.images = <<>>
    /\ self.top_image = ""
    /\ self.top_node = NoNode
    /\ self.keywords = <<>>
    /\ self.summary = ""
    /\ ~self.is_parsed

\* a first download(input_html=h) with h empty or only whitespace, and no
\* title, that returned
BlankHtmlDownloaded ==
    /\ ncalls = 1
    /\ last.op = "download"
    /\ last.args.input_html \in {"", " "}
    /\ last.args.title = <<>>
    /\ last.raised = NoException

\* C11: download(input_html=h) with an empty or whitespace-only h followed
\* by parse() raises no error and leaves every extracted field of the
\* article at its constructed default.
C11_BlankHtmlThenParse ==
    [][ (BlankHtmlDownloaded /\ last'.op = "parse")
        => /\ last'.raised = NoException
           /\ ConstructedDefaults(article') ]_vars

\* C12: after a parse() that built a tree, clean_doc is a copy of doc (the
\* same html, another object) that the cleaner has run on, and doc itself
\* is as the parser built it: not cleaned.
C12_CleanDocIsACopy ==
    (last.op = "parse" /\ article.doc # NoDoc)
        => /\ article.clean_doc.src = article.doc.src
           /\ article.clean_doc.id # article.doc.id
           /\ article.clean_doc.cleaned
           /\ ~article.doc.cleaned
           /\ article.doc = fromstring(article.html)

\* a parse() that built the two trees and cleaned one
C12_Witness ==
    /\ last.op = "parse"
    /\ article.is_parsed
    /\ article.doc # NoDoc
    /\ article.clean_doc.cleaned

\* the dates the extractor hands to parse()
ExtractedDates == {e.publish_date : e \in Extractions} \ {None}

\* C20: after a parse() that raised nothing and found no date, publish_date
\* is the empty string the article was constructed with.
C20_NoDateLeavesDefault ==
    (last.op = "parse" /\ last.raised = NoException
     /\ article.publish_date \notin ExtractedDates)
        => article.publish_date = ""

\* C13: building an Article with config=c, with or without keyword
\* arguments, leaves the caller's configuration object c as it was,
\* requests_params included (so no Article built from c changes the settings
\* of another one).
C13_ConfigurationIsReadOnly ==
    [][ (last'.op = "__init__" /\ last'.raised = NoException)
        => caller_config' = caller_config ]_vars

\* C14: building an Article from a url with neither scheme nor domain, with
\* no source_url given, raises ArticleException.
C14_MalformedUrlRaises ==
    [][ (last'.op = "__init__" /\ last'.args.url \in MalformedUrls
         /\ last'.args.source_url = "")
        => last'.raised.type = "ArticleException" ]_vars

\* the name an author entry is compared by: lower case, trimmed
AuthorKey(name) == strip(lower(name))

\* the first and the last place of a name in a list
FirstPlace(lst, key) == CHOOSE i \in 1..Len(lst) :
    AuthorKey(lst[i]) = key /\ \A j \in 1..(i - 1) : AuthorKey(lst[j]) # key

LastPlace(lst, key) == CHOOSE i \in 1..Len(lst) :
    AuthorKey(lst[i]) = key /\ \A j \in (i + 1)..Len(lst) : AuthorKey(lst[j]) # key

\* the list returned holds every name of the candidates once (compared in
\* lower case, trimmed), in the order the names first occur, and no empty name
UniqueInFirstSeenOrder(lst, res) ==
    /\ \A i \in 1..Len(res) : AuthorKey(res[i]) # <<>>
                              /\ \E k \in 1..Len(lst) : AuthorKey(lst[k]) = AuthorKey(res[i])
    /\ \A k \in 1..Len(lst) : AuthorKey(lst[k]) # <<>>
                              => \E i \in 1..Len(res) : AuthorKey(res[i]) = AuthorKey(lst[k])
    /\ \A i, j \in 1..Len(res) : i < j
          => /\ AuthorKey(res[i]) # AuthorKey(res[j])
             /\ FirstPlace(lst, AuthorKey(res[i])) < FirstPlace(lst, AuthorKey(res[j]))

\* C15 as stated: get_authors returns a list with no two entries equal under
\* lower-case/trim comparison, in the order of first occurrence, and each
\* entry has the casing of the first occurrence of its name.
C15_FirstSeenCasing ==
    extraction.done
        => /\ UniqueInFirstSeenOrder(extraction.args, extraction.result)
           /\ \A i \in 1..Len(extraction.result) :
                 extraction.result[i] =
                    strip(extraction.args[FirstPlace(extraction.args,
                                                    AuthorKey(extraction.result[i]))])

\* C15 amended: get_authors returns a list with no two entries equal under
\* lower-case/trim comparison, in the order of first occurrence, and each
\* entry is the trimmed text of the last occurrence of its name.
C15_LastSeenCasing ==
    extraction.done
        => /\ UniqueInFirstSeenOrder(extraction.args, extraction.result)
           /\ \A i \in 1..Len(extraction.result) :
                 extraction.result[i] =
                    strip(extraction.args[LastPlace(extraction.args,
                                                   AuthorKey(extraction.result[i]))])

\* a name seen twice in different casing, another name between the two
C15_Witness ==
    /\ extraction.done
    /\ extraction.args = << <<"a">>, <<"a", "a">>, <<"A", " ">> >>
    /\ extraction.result = << <<"A">>, <<"a", "a">> >>

\* the title is split (rule 5, a delimiter found) and a piece holds text
TitleIsSplit(a) ==
    /\ a.has_title
    /\ TitleRule(a.title_text, TitleTextH1(a.h1_list), a.title_text_fb) = 5
    /\ FirstSplitter(a.title_text) # 0

\* the pieces of the title, trimmed
TitlePieces(a) ==
    LET pieces == Split(a.title_text, SPLITTERS[FirstSplitter(a.title_text)].pattern)
    IN  [i \in 1..Len(pieces) |-> strip(pieces[i])]

\* piece i of the title contains the filtered text
PieceContains(a, i, text) == text # <<>> /\ Contains(Filtered(TitlePieces(a)[i]), Filtered(text))

\* the title returned is piece i, or the h1 text when piece i is the h1 text
\* up to case and special characters
PieceIsChosen(a, i, res) ==
    LET piece == strip(TITLE_REPLACEMENTS(TitlePieces(a)[i]))
    IN  /\ Filtered(res) = Filtered(piece)
        /\ res \in {piece, TitleTextH1(a.h1_list)}

\* when the title is split and a piece contains the filtered text h1, the
\* first such piece is chosen, whatever the lengths of the pieces
HintDirectedSplit(a, res, h1) ==
    TitleIsSplit(a)
        => \A i \in 1..Len(TitlePieces(a)) :
              (/\ PieceContains(a, i, h1)
               /\ \A j \in 1..(i - 1) : ~PieceContains(a, j, h1))
                 => PieceIsChosen(a, i, res)

\* the longest h1 text, double spaces cleaned, whatever its length
LongestH1(h1_list) ==
    IF h1_list = <<>> THEN <<>> ELSE CleanDoubleSpaces(Longest(h1_list))

FooBarNews ==
    [has_title |-> TRUE, title_text |-> Chars("Foo - Bar News"),
     h1_list |-> <<Chars("Foo")>>, title_text_fb |-> <<>>]

SourceRank(source) ==
    CASE source = "url" -> 1 [] source = "json-ld" -> 2 [] source = "meta" -> 3

\* candidate i has the highest score, and of the candidates with that score
\* it is the first of the earliest source
IsBestMatch(m, i) ==
    /\ \A j \in 1..Len(m) : m[j].score <= m[i].score
    /\ \A j \in 1..Len(m) :
          m[j].score = m[i].score
             => /\ SourceRank(m[i].source) <= SourceRank(m[j].source)
                /\ SourceRank(m[i].source) = SourceRank(m[j].source) => i <= j

UrlAndFutureMetaTag ==
    [url_date |-> "2023/05/10", scripts |-> <<>>,
     meta_tags |-> <<[date_str |-> "2099-01-01", by_name |-> FALSE]>>]

\* C17: a get_publishing_date that returns gives the date of the candidate
\* with the highest score, among equal scores the one of the earliest source
\* in the order url, json-ld, meta tags; the url date 2023/05/10 is returned
\* over the meta tag date 2099-01-01.
C17_HighestScoreEarliestSource ==
    (extraction.done /\ extraction.raised = NoException)
        => LET m == DateMatches(extraction.args).matches
           IN  /\ m # <<>> => \E i \in 1..Len(m) : /\ IsBestMatch(m, i)
                                                   /\ extraction.result = m[i].date
               /\ extraction.args = UrlAndFutureMetaTag
                     => extraction.result = "2023-05-10"

\* a url date and a yoast date, both of score 10, and a meta tag: the url
\* date is returned
C17_Witness ==
    /\ extraction.done
    /\ extraction.args.url_date = "2023/05/10"
    /\ Len(extraction.args.scripts) = 1
    /\ extraction.args.scripts[1].yoast
    /\ extraction.args.scripts[1].text.kind = "object"
    /\ Len(DateMatches(extraction.args).matches) = 3
    /\ DateMatches(extraction.args).matches[2].score = 10
    /\ extraction.result = "2023-05-10"

\* C19: whatever the ld+json script tags hold (no text, text that is not
\* JSON, JSON that is no object, an @graph item that is no object, a date
\* that does not parse), get_publishing_date raises nothing.
C19_MalformedJsonLdNeverRaises ==
    extraction.done => extraction.raised = NoException

RECURSIVE Lookup(_, _)
\* the value of the data under the keys, one below the other; Missing if
\* there is none
Lookup(items, keys) ==
    IF keys = <<>> THEN Dict(items)
    ELSE IF Len(keys) = 1 THEN Get(items, keys[1])
    ELSE IF Get(items, keys[1]).kind = "dict"
    THEN Lookup(Get(items, keys[1]).items, Tail(keys))
    ELSE Missing

\* the last meta tag of the document, the data before it and the parts of
\* its key
LastMeta == extraction.args[Len(extraction.args)]
DataBeforeLastMeta ==
    get_meta_data(SubSeq(extraction.args, 1, Len(extraction.args) - 1))
LastMetaParts == Split(LastMeta.key, <<":">>)

\* C18: when the key of a meta tag extends, by more colon-separated parts, a
\* key under which the data holds a scalar (at the top or deeper, integer 0
\* included), the data then holds under that key a mapping with the scalar
\* under "identifier" and with the value of the longer key.
C18_ScalarKeptUnderIdentifier ==
    (extraction.done /\ extraction.args # <<>> /\ LastMeta.value # <<>>)
        => \A n \in 1..(Len(LastMetaParts) - 1) :
              LET prefix == SubSeq(LastMetaParts, 1, n)
                  scalar == Lookup(DataBeforeLastMeta, prefix)
                  entry == Lookup(extraction.result, prefix)
              IN  IsScalar(scalar)
                     => /\ entry.kind = "dict"
                        /\ Get(entry.items, Chars("identifier")) = scalar
                        /\ Lookup(extraction.result, LastMetaParts)
                              = MetaValue(LastMeta.value)

\* the requests a call made for the article's own address
ArticleRequests(l) ==
    {i \in DOMAIN l.requests :
        \/ l.requests[i].fn = "open"
        \/ l.requests[i].fn = "get_html_2XX_only" /\ l.requests[i].arg = None}

\* C25: one download() call never retries: it makes at most three requests,
\* at most one for the article's address, at most one for a meta-refresh
\* target and at most one for a read-more link, and a request that failed is
\* the last request of the call.
C25_NoRetry ==
    last.op = "download" =>
        /\ Len(last.requests) <= 3
        /\ Cardinality(ArticleRequests(last)) <= 1
        /\ Cardinality(RefreshRequests(last)) <= 1
        /\ Cardinality(ReadMoreRequests(last)) <= 1
        /\ \A i \in DOMAIN last.requests :
              ~Succeeded(last.requests[i]) => i = Len(last.requests)

\* a download() that asked for the article, for the meta-refresh target and
\* for the read-more link, the last of which failed
C25_Witness ==
    /\ last.op = "download"
    /\ Len(last.requests) = 3
    /\ ArticleRequests(last) = {1}
    /\ RefreshRequests(last) = {2}
    /\ ReadMoreRequests(last) = {3}
    /\ ~Succeeded(last.requests[3])

\* C27 as stated: a download(title=t) with a non-empty t that ends Fetched
\* leaves Article.title = t cut to MAX_TITLE, on every path through download.
C27_TitleIsForced ==
    [][ ( /\ last'.op = "download"
          /\ ncalls' = ncalls + 1
          /\ last'.args.title # <<>>
          /\ last'.raised = NoException
          /\ article'.download_state = SUCCESS )
        => article'.title = Take(last'.args.title, MAX_TITLE) ]_vars

\* C28 as stated: download_exception_msg is set only while download_state is
\* FAILED_RESPONSE.
C28_MessageOnlyWhileFailed ==
    article.download_exception_msg # None
        => article.download_state = FAILED_RESPONSE

\* the body holds the signature
Signed(html, signature) == Contains(Chars(html), Chars(signature))

\* the label the claim gives a failed response: Cloudflare before CloudFront
\* before PerimeterX, None without a signature
ProtectionLabel(html) ==
    IF Signed(html, "cloudflare")
          \/ Signed(html, "/cdn-cgi/challenge-platform/h/b/orchestrate/chl_page")
    THEN "Cloudflare"
    ELSE IF Signed(html, "CloudFront") THEN "CloudFront"
    ELSE IF Signed(html, "perimeterx") THEN "PerimeterX"
    ELSE None

\* the failure reason of a failed request: the exception text, the label
\* when the body of the error response holds a signature, the status otherwise
FailureReason(req) ==
    IF req.outcome.type # "response" THEN req.outcome.text
    ELSE IF ProtectionLabel(req.outcome.html) # None
    THEN "Website protected with " \o ProtectionLabel(req.outcome.html)
            \o ", url: " \o req.arg
    ELSE "Status code " \o ToString(req.outcome.status_code) \o " for url " \o req.arg

C26_SignedSuccess ==
    /\ last.op = "download"
    /\ Len(last.requests) = 1
    /\ Succeeded(last.requests[1])
    /\ Signed(last.requests[1].outcome.html, "cloudflare")
    /\ article.download_state = SUCCESS
    /\ article.download_exception_msg = None

\* C29 as stated: after a parse() that found a top node, the node the text
\* and article_html are rendered from (_top_node_complemented) is the
\* complemented node of the resolver run that produced top_node, the run on
\* doc.
C29_TextFromTheRunOnDoc ==
    (last.op = "parse" /\ article.is_parsed /\ article.top_node # NoNode)
        => /\ article._top_node_complemented.complemented
           /\ article._top_node_complemented.tree = article.top_node.tree

\* the metadata an article holds after parse()
ResolvedMetadata(self) ==
    [ title |-> self.title, authors |-> self.authors,
      publish_date |-> self.publish_date, canonical_link |-> self.canonical_link,
      keywords |-> self.meta_keywords, tags |-> self.tags,
      meta_data |-> self.meta_data ]

\* C21: a parse() that follows a parse() on the same html, the extractors
\* answering for the unchanged document as they did before, leaves title,
\* authors, publish date, canonical link, keywords, tags and meta data as the
\* first parse() left them.
C21_ParseTwice ==
    [][ ( /\ last.op = "parse"
          /\ last'.op = "parse"
          /\ ncalls' = ncalls + 1
          /\ last'.args.ext = last.args.ext )
        => ResolvedMetadata(article') = ResolvedMetadata(article) ]_vars

\* a second parse() of a downloaded page in which the extractors find every
\* field
C21_Witness ==
    /\ last.op = "parse"
    /\ last.repeats
    /\ last.raised = NoException
    /\ article.is_parsed
    /\ last.args.ext.authors = <<"A", "B">>
    /\ article.authors = <<"A">>
    /\ article.canonical_link = "http://a/c"

\* the candidates of the call at hand, before and after the sort
DateCandidates == DateMatches(extraction.args).matches
SortedDateCandidates == SortByScore(<<>>, DateCandidates)

\* the meta tags of the call at hand whose content parses as a date
DatedMetaTags ==
    SelectSeq(extraction.args.meta_tags,
              LAMBDA meta_tag : parse_date_str(meta_tag.date_str) # None)

\* the score the claim gives a meta tag's date: 6, 2 more when the tag matched
\* by name, then 2 less when the date is in the future, or else 1 less when
\* it is more than 25 * 365 days old
ClaimedMetaScore(meta_tag) ==
    LET age == Today - DayNumber(parse_date_str(meta_tag.date_str))
    IN  6 + (IF meta_tag.by_name THEN 2 ELSE 0)
          - (IF age < 0 THEN 2 ELSE 0)
          - (IF age >= 0 /\ age > 25 * 365 THEN 1 ELSE 0)

\* C30: every candidate from a meta tag has the score 6, plus 2 on a name
\* match, minus 2 for a future date or else minus 1 for a date older than
\* 25 * 365 days, a score between 4 and 8; and the date returned is that of a
\* meta tag only when neither the url nor a JSON-LD script gave a candidate.
C30_MetaTagScores ==
    (extraction.fn = "get_publishing_date" /\ extraction.done
        /\ extraction.raised = NoException)
    => LET metas == SelectSeq(DateCandidates, LAMBDA m : m.source = "meta") IN
       /\ Len(metas) = Len(DatedMetaTags)
       /\ \A i \in DOMAIN metas :
             /\ metas[i].score = ClaimedMetaScore(DatedMetaTags[i])
             /\ metas[i].score \in 4..8
       /\ (SortedDateCandidates # <<>> /\ SortedDateCandidates[1].source = "meta")
             => /\ extraction.result = SortedDateCandidates[1].date
                /\ \A i \in DOMAIN DateCandidates : DateCandidates[i].source = "meta"

\* a document without url date and scripts whose meta tags give a future date
\* not matched by name (score 4) and a recent date matched by name (score 8):
\* the recent date is returned
C30_Witness ==
    /\ extraction.fn = "get_publishing_date"
    /\ extraction.done
    /\ extraction.raised = NoException
    /\ Len(DateCandidates) = 2
    /\ DateCandidates[1].source = "meta" /\ DateCandidates[1].score = 4
    /\ DateCandidates[2].source = "meta" /\ DateCandidates[2].score = 8
    /\ extraction.result = DateCandidates[2].date

\* C24 as stated: every name parse_byline returns has at least 2 tokens,
\* whether a separator or the end of the text closed it.
C24_NamesHaveTwoTokens ==
    (extraction.fn = "parse_byline" /\ extraction.done)
        => \A i \in DOMAIN extraction.result :
              Len(Split(extraction.result[i], <<" ">>)) >= 2

\* the value get_canonical_link is to work on: the href of link rel=canonical
\* when there is one, the og:url otherwise
PreferredMetaUrl ==
    strip(IF extraction.args.canonical # <<>> THEN extraction.args.canonical
          ELSE extraction.args.og_content)

\* the paths left after cutting text up to and including an occurrence of
\* hostname followed by "/"
AfterHostname(text, hostname) ==
    { SubSeq(text, i + Len(hostname) + 1, Len(text)) :
        i \in {j \in 1..(Len(text) - Len(hostname)) :
                 SubSeq(text, j, j + Len(hostname)) = hostname \o <<"/">>} }

\* scheme and host of the article url joined with a path
OnArticleHost(true_path) ==
    LET parsed_article_url == urlparse(extraction.args.article_url)
    IN  parsed_article_url.scheme \o Chars("://") \o parsed_article_url.hostname
            \o (IF true_path # <<>> /\ Head(true_path) # "/" THEN <<"/">> ELSE <<>>)
            \o true_path

\* the result the claim gives for a value without hostname
ClaimedCanonicalLinks ==
    LET meta_path == urlparse(PreferredMetaUrl).path
        hostname == urlparse(extraction.args.article_url).hostname
    IN  IF AfterHostname(meta_path, hostname) # {}
        THEN {OnArticleHost(true_path) : true_path \in AfterHostname(meta_path, hostname)}
        ELSE {OnArticleHost(meta_path)}

\* C22 as stated: get_canonical_link works on the link rel=canonical href when
\* there is one and on og:url otherwise; a value with a hostname is returned
\* as it is, and a value without one gives the article url's scheme and host
\* joined with the value's path, cut after an occurrence of the article's
\* hostname followed by "/" when the path holds one.
C22_CanonicalLink ==
    (extraction.fn = "get_canonical_link" /\ extraction.done /\ PreferredMetaUrl # <<>>)
        => IF urlparse(PreferredMetaUrl).hostname # <<>>
           THEN extraction.result = PreferredMetaUrl
           ELSE extraction.result \in ClaimedCanonicalLinks

\* the example of C22: og:url example.com/article.html on
\* https://example.com/news/x gives https://example.com/article.html
C22_Example ==
    ( /\ extraction.fn = "get_canonical_link" /\ extraction.done
      /\ extraction.args.article_url = Chars("https://example.com/news/x")
      /\ extraction.args.canonical = <<>>
      /\ extraction.args.og_content = Chars("example.com/article.html") )
        => extraction.result = Chars("https://example.com/article.html")

\* the links of the page at hand that have a domain and get past the tests
\* on path and scheme
LinksWithDomain ==
    {i \in DOMAIN extraction.args.page_urls :
        LET parsed == urlparse_fragments(extraction.args.page_urls[i], FALSE)
        IN  /\ parsed.netloc # <<>>
            /\ ~(parsed.path # <<>> /\ Head(parsed.path) = "#")
            /\ parsed.scheme \in {Chars("http"), Chars("https")}}

\* link i is kept: its scheme://domain is in valid_categories
LinkIsKept(i) ==
    LET parsed == urlparse_fragments(extraction.args.page_urls[i], FALSE)
        category == parsed.scheme \o Chars("://") \o parsed.netloc
    IN  \E k \in DOMAIN extraction.result.valid_categories :
            extraction.result.valid_categories[k] = category

\* domain and suffix of a url, the domain that can be registered
RegistrableDomain(url) == tldextract(url).domain \o <<".">> \o tldextract(url).suffix

\* a label of the link's subdomain is the domain label of the source
SubdomainNamesSource(i) ==
    LET parts == Split(tldextract(extraction.args.page_urls[i]).subdomain, <<".">>)
    IN  \E k \in DOMAIN parts : parts[k] = tldextract(extraction.args.source_url).domain

\* the subdomain of the link is m or i
MobileSubdomain(i) ==
    tldextract(extraction.args.page_urls[i]).subdomain \in {Chars("m"), Chars("i")}

EspnExample ==
    \A i \in DOMAIN extraction.args.page_urls :
        LET p_url == extraction.args.page_urls[i]
        IN  extraction.args.source_url = Chars("http://espn.com")
            => /\ p_url = Chars("http://m.espn.com/nba") => ~LinkIsKept(i)
               /\ p_url = Chars("http://espn.go.com/nfl") => LinkIsKept(i)
               /\ p_url = Chars("http://unrelated.com/x") => ~LinkIsKept(i)

=============================================================================
